---- MODULE Spec2Model ----
(***************************************************************************)
(* Iris ODM: the document store engine (Model) and the synchronization     *)
(* engine (SyncManager) over one active collection of an IndexedDB         *)
(* database.                                                               *)
(*                                                                         *)
(* A record is a function from field names to values; a field that is      *)
(* absent from the record is absent from the function's domain.  Every     *)
(* value is well typed for its field (strings for String fields, integer   *)
(* instants for Date fields), so _castValue and _isValidType leave the     *)
(* values drawn here as they are and report no type error.  Data of other  *)
(* types, queries with operators, the connection to the database and the   *)
(* Schema conversions have specifications of their own further down.       *)
(*                                                                         *)
(* The application makes one call at a time: a call runs to its end, its   *)
(* outcome is held in last until it returns, and the next call follows.    *)
(* sync() is three awaited calls, taken one step each.                     *)
(***************************************************************************)
EXTENDS Integers, Sequences, FiniteSets, TLC

\* ------------------------------------------------------------------ bounds
MaxClock == 1
MaxBatch == 1

\* -------------------------------------------------------------- universes
KeyOrder == <<"k1", "k2">>
Keys == {KeyOrder[i] : i \in 1..Len(KeyOrder)}
Names == {"a", "b"}
AckServerIds == {"k1", "s1"}
Policies == {"server-wins", "client-wins", "manual"}

\* ------------------------------------------------------- field names (Sync)
primary == "_id"
idField == "_id"
syncStatusField == "_syncStatus"
lastSyncField == "_lastSync"
ServerIdOptions == {"_id", "_serverId"}

VARIABLES
    store,            \* the active collection: primary key -> stored record
    activeCollection, \* Model.activeCollection
    objectStoreNames, \* the stores of the open database
    watch,            \* watchChanges() has replaced model.create / model.update
    conflictResolution,
    serverIdField,
    clock,            \* the instant new Date() returns next
    syncPc,           \* the awaited calls the running sync() has finished
    syncRun,          \* what the running sync() has done and read so far
    last,             \* the call that has run and not yet returned: inputs, result
    version,          \* Model.version
    collections,      \* Model.collections, an array of store names
    db,               \* Model.db: null or the connection connect() kept
    database,         \* the IndexedDB database of the model's name
    connections,      \* the connections to the database that are open
    inFlight,         \* the create / update calls in flight, one per caller
    txns              \* the transactions that are alive, in creation order

vars == <<store, activeCollection, objectStoreNames, watch, conflictResolution,
          serverIdField, clock, syncPc, syncRun, last,
          version, collections, db, database, connections, inFlight, txns>>

\* The connection state of the engine.
engine == <<version, collections, db, database, connections>>

\* The calls in flight and their transactions.
flight == <<inFlight, txns>>

\* -------------------------------------------------------------- JS values
Undefined == [t |-> "undefined"]
Str(s) == [t |-> "string", v |-> s]
Obj(o) == [t |-> "object", v |-> o]
EmptyObj == [f \in {} |-> 0]

\* !x is false
Truthy(x) == x.t = "object" \/ (x.t = "string" /\ x.v # "")

\* { ...a, ...b }
Spread(a, b) == [f \in DOMAIN a \cup DOMAIN b |-> IF f \in DOMAIN b THEN b[f] ELSE a[f]]

\* { ...x } of a JS value: an object's own fields; undefined spreads to nothing.
\* The characters of a string spread to index keys, which no schema declares.
SpreadValue(x) == IF x.t = "object" THEN x.v ELSE EmptyObj

Without(o, f) == [g \in DOMAIN o \ {f} |-> o[g]]

\* x[primary]
PrimaryOf(x) ==
    IF x.t = "object" /\ primary \in DOMAIN x.v THEN Str(x.v[primary]) ELSE Undefined

\* ------------------------------------------------------------------ Schema
\* The schema of the sync test (name required) after the Model constructor has
\* declared the primary key and prepareSyncSchema() has added the sync fields.
SchemaFields ==
    {primary, "name", syncStatusField, lastSyncField, "_syncErrors", "_localUpdatedAt",
     serverIdField}
Required == {"name"}
\* prepareSyncSchema declares the server id unique only when no field of that
\* name is declared yet; the primary key is unique from the constructor.
UniqueFields == {primary} \cup (IF serverIdField # primary THEN {serverIdField} ELSE {})

\* ------------------------------------------------------------------- Model
\* db.transaction(activeCollection) throws NotFoundError for a missing store.
StoreOpen == activeCollection \in objectStoreNames

Fail(s, e) == [ok |-> FALSE, err |-> e, store |-> s]

Num(n) == [t |-> "number", v |-> n]

\* The switch of _matchesQuery: one operator of a clause against item[key],
\* undefined when the item has no such field.  An $in / $nin operand is the set
\* of the elements of the array.
OperatorMatchesFailOpen(item, key, operator, operand) ==
    CASE operator = "$gt" -> key \in DOMAIN item /\ item[key] > operand
      [] operator = "$gte" -> key \in DOMAIN item /\ item[key] >= operand
      [] operator = "$lt" -> key \in DOMAIN item /\ item[key] < operand
      [] operator = "$lte" -> key \in DOMAIN item /\ item[key] <= operand
      [] operator = "$ne" -> key \notin DOMAIN item \/ item[key] # operand
      [] operator = "$in" -> key \in DOMAIN item /\ item[key] \in operand
      [] operator = "$nin" -> key \notin DOMAIN item \/ item[key] \notin operand
      [] OTHER -> TRUE

OperatorMatches(item, key, operator, operand) ==
    CASE operator = "$gt" -> key \in DOMAIN item /\ item[key] > operand
      [] operator = "$gte" -> key \in DOMAIN item /\ item[key] >= operand
      [] operator = "$lt" -> key \in DOMAIN item /\ item[key] < operand
      [] operator = "$lte" -> key \in DOMAIN item /\ item[key] <= operand
      [] operator = "$ne" -> key \notin DOMAIN item \/ item[key] # operand
      [] operator = "$in" -> key \in DOMAIN item /\ item[key] \in operand
      [] operator = "$nin" -> key \notin DOMAIN item \/ item[key] \notin operand
      [] OTHER -> FALSE

\* _matchesQuery: every clause; an object clause is every one of its operators,
\* any other clause compares with ===, an undefined literal equal to an absent
\* field.
MatchesQuery(item, query) ==
    \A f \in DOMAIN query :
        IF query[f].t = "object"
        THEN \A operator \in DOMAIN query[f].v :
                 OperatorMatches(item, f, operator, query[f].v[operator])
        ELSE IF query[f].t = "undefined" THEN f \notin DOMAIN item
        ELSE f \in DOMAIN item /\ item[f] = query[f].v

\* The cursor walks the store in key order.
Scan(s) ==
    LET ks == SelectSeq(KeyOrder, LAMBDA k : k \in DOMAIN s)
    IN  [i \in 1..Len(ks) |-> s[ks[i]]]

FindIgnoringQuery(s, arg) == Scan(s)

\* find({query = null, fields = null} = {}): only the argument's own "query"
\* key is a query; an argument without it selects every record.
Find(s, arg) ==
    IF "query" \in DOMAIN arg
    THEN SelectSeq(Scan(s), LAMBDA r : MatchesQuery(r, arg.query))
    ELSE Scan(s)

\* Model.deleteMany(query): find(query), then a delete per record found.
DeleteMany(s, query) ==
    LET items == Find(s, query)
        ids == {items[i][primary] : i \in 1..Len(items)}
    IN  [k \in DOMAIN s \ ids |-> s[k]]

\* _prepare: only declared fields survive.
Prepare(o) == [f \in DOMAIN o \cap SchemaFields |-> o[f]]

QueryValue(o, f) == IF f \in DOMAIN o THEN Str(o[f]) ELSE Undefined

ValidateErrorsRequiredOnly(s, o, operation) ==
    {<<"required", f>> : f \in {g \in Required : g \notin DOMAIN o}}

\* The errors _validateData accumulates for the fields o.
ValidateErrors(s, o, operation) ==
    {<<"required", f>> : f \in {g \in Required : g \notin DOMAIN o}}
    \cup (IF operation # "update"
          THEN {<<"unique", f>> :
                   f \in {g \in UniqueFields :
                             Len(Find(s, [query |-> (g :> QueryValue(o, g))])) > 0}}
          ELSE {})

Put(s, doc) ==
    [k \in DOMAIN s \cup {doc[primary]} |-> IF k = doc[primary] THEN doc ELSE s[k]]

\* validatePrimaryKey(data) = "e"
NoPrimaryKey(data) == primary \notin DOMAIN data \/ data[primary] = ""

\* Model.create(data): gen is the identifier generateObjectId() returns.  The
\* promise resolves with the object that was passed, the key assigned in it.
CreateBody(s, data, gen) ==
    LET d1 == IF NoPrimaryKey(data) THEN Spread(data, (primary :> gen)) ELSE data
        doc == Prepare(d1)
    IN  IF ~StoreOpen THEN Fail(s, "NotFoundError")
        ELSE IF ValidateErrors(s, d1, "create") # {} THEN Fail(s, "Validation failed")
        ELSE IF doc[primary] \in DOMAIN s THEN Fail(s, "ConstraintError")
        ELSE [ok |-> TRUE, err |-> "", store |-> Put(s, doc), ret |-> d1]

ModelCreateReturnsInput(s, data, gen) ==
    LET r == CreateBody(s, data, gen)
    IN  IF r.ok THEN [r EXCEPT !.ret = data] ELSE r

ModelCreate(s, data, gen) == CreateBody(s, data, gen)

\* Model.findById(id) without a projection: the record, or undefined.
FindById(s, id) ==
    IF StoreOpen /\ id \in DOMAIN s THEN Obj(s[id]) ELSE Undefined

\* Model.update(data, id) on JS values.
UpdateBody(s, data, id) ==
    IF data.t = "undefined" THEN Fail(s, "TypeError")
    ELSE
    LET id1 == IF Truthy(id) THEN id ELSE PrimaryOf(data)
        patch == Without(SpreadValue(data), primary)
    IN  IF ~Truthy(id1) THEN Fail(s, "Primary key is required")
        ELSE IF ValidateErrors(s, patch, "update") # {} THEN Fail(s, "Validation failed")
        ELSE IF ~StoreOpen THEN Fail(s, "NotFoundError")
        ELSE IF id1.t # "string" THEN Fail(s, "DataError")
        ELSE IF id1.v \notin DOMAIN s THEN Fail(s, "Item not found")
        ELSE [ok |-> TRUE, err |-> "",
              store |-> Put(s, Spread(s[id1.v], Prepare(patch)))]

ModelUpdateIdFirst(s, data, id) == UpdateBody(s, id, data)

\* Model.update without the delete data[primary]: the merged record goes where
\* the patch's primary key points.
ModelUpdateKeepsPrimary(s, data, id) ==
    LET r == UpdateBody(s, data, id)
    IN  IF r.ok /\ primary \in DOMAIN data.v /\ id.t = "string"
        THEN [r EXCEPT !.store = Put(s, Spread(s[id.v], Prepare(data.v)))]
        ELSE r

ModelUpdate(s, data, id) == UpdateBody(s, data, id)

\* Model.delete(id)
ModelDelete(s, id) ==
    IF ~StoreOpen THEN Fail(s, "NotFoundError")
    ELSE [ok |-> TRUE, err |-> "", store |-> [k \in DOMAIN s \ {id} |-> s[k]]]

\* ------------------------------------------------ validation of typed data
\* create and update on data whose values may be of any type, against a schema
\* definition with required fields, a validated field and the unique primary
\* key.  The data are a function from field names to JS values.
Null == [t |-> "null"]

\* A schema definition: name (String, required), age (Number, required, with
\* a custom validator), and the primary key the Model constructor declares last.
UserDefinition ==
    [name |-> [type |-> "String", required |-> TRUE, unique |-> FALSE, validate |-> FALSE],
     age |-> [type |-> "Number", required |-> TRUE, unique |-> FALSE, validate |-> TRUE],
     _id |-> [type |-> "String", required |-> FALSE, unique |-> TRUE, validate |-> FALSE]]

\* Object.entries(this.schema.definition): the fields in insertion order.
DefinitionEntries == <<"name", "age", "_id">>

\* _isValidType for the String and Number types.
IsValidType(value, type) ==
    CASE type = "String" -> value.t = "string"
      [] type = "Number" -> value.t = "number"
      [] OTHER -> FALSE

\* The validator of the age field, v => { if (typeof v === "string") throw ...;
\* return v >= 0 }: null compares as 0.
Validator(value) ==
    CASE value.t = "number" -> IF value.v >= 0 THEN "true" ELSE "false"
      [] value.t = "null" -> "true"
      [] OTHER -> "throws"

\* data[field], undefined when the data have no such field.
ValueOf(data, field) == IF field \in DOMAIN data THEN data[field] ELSE Undefined

\* The body of the loop of _validateData for one field: the messages it pushes,
\* in the order of its four checks.
FieldErrors(s, definition, field, data, operation) ==
    (IF definition[field].required /\ field \notin DOMAIN data
     THEN <<<<"required", field>>>> ELSE <<>>)
    \o (IF /\ definition[field].unique
           /\ operation # "update"
           /\ Len(Find(s, [query |-> (field :> ValueOf(data, field))])) > 0
        THEN <<<<"unique", field>>>> ELSE <<>>)
    \o (IF /\ field \in DOMAIN data
           /\ data[field] # Null
           /\ ~IsValidType(data[field], definition[field].type)
        THEN <<<<"type", field>>>> ELSE <<>>)
    \o (IF definition[field].validate /\ field \in DOMAIN data
        THEN CASE Validator(data[field]) = "false" -> <<<<"validate", field>>>>
               [] Validator(data[field]) = "throws" -> <<<<"validator threw", field>>>>
               [] OTHER -> <<>>
        ELSE <<>>)

\* The loop of _validateData from the i-th field on.
RECURSIVE ErrorsFrom(_, _, _, _, _)
ErrorsFrom(s, definition, i, data, operation) ==
    IF i > Len(DefinitionEntries) THEN <<>>
    ELSE FieldErrors(s, definition, DefinitionEntries[i], data, operation)
             \o ErrorsFrom(s, definition, i + 1, data, operation)

ValidateDataFailFast(s, definition, data, operation) ==
    LET errors == ErrorsFrom(s, definition, 1, data, operation)
    IN  IF errors = <<>> THEN <<>> ELSE <<errors[1]>>

\* _validateData after the primary key is settled: the errors the thrown
\* "Validation failed: ..." joins, none when the data pass.
ValidateData(s, definition, data, operation) ==
    ErrorsFrom(s, definition, 1, data, operation)

\* _castValue for the String and Number types.
CastValue(value, type) ==
    CASE type = "String" /\ value.t = "string" -> value.v
      [] type = "String" /\ value.t = "number" -> "number"
      [] type = "String" -> "null"
      [] type = "Number" /\ value.t = "number" -> value.v
      [] type = "Number" /\ value.t = "null" -> 0
      [] OTHER -> -1

\* _prepare: the declared fields, each cast to its declared type.
PrepareTyped(definition, data) ==
    [f \in DOMAIN data \cap DOMAIN definition |-> CastValue(data[f], definition[f].type)]

FailWith(s, e, errors) == [ok |-> FALSE, err |-> e, errors |-> errors, store |-> s]

\* Model.create(data) on typed data.
CreateTyped(s, definition, data, gen) ==
    LET d1 == IF primary \notin DOMAIN data \/ ~Truthy(data[primary])
              THEN Spread(data, (primary :> Str(gen))) ELSE data
        errors == ValidateData(s, definition, d1, "create")
        doc == PrepareTyped(definition, d1)
    IN  IF ~StoreOpen THEN FailWith(s, "NotFoundError", <<>>)
        ELSE IF errors # <<>> THEN FailWith(s, "Validation failed", errors)
        ELSE IF doc[primary] \in DOMAIN s THEN FailWith(s, "ConstraintError", <<>>)
        ELSE [ok |-> TRUE, err |-> "", errors |-> <<>>, store |-> Put(s, doc)]

\* Model.update(data, id) on typed data.
UpdateTyped(s, definition, data, id) ==
    LET id1 == IF Truthy(id) THEN id ELSE ValueOf(data, primary)
        patch == Without(data, primary)
        errors == ValidateData(s, definition, patch, "update")
    IN  IF ~Truthy(id1) THEN FailWith(s, "Primary key is required", <<>>)
        ELSE IF errors # <<>> THEN FailWith(s, "Validation failed", errors)
        ELSE IF ~StoreOpen THEN FailWith(s, "NotFoundError", <<>>)
        ELSE IF id1.v \notin DOMAIN s THEN FailWith(s, "Item not found", <<>>)
        ELSE [ok |-> TRUE, err |-> "", errors |-> <<>>,
              store |-> Put(s, Spread(s[id1.v], PrepareTyped(definition, patch)))]

\* ------------------------------------------------------------- SyncManager
NoTime == -1

\* watchChanges: the fields both overrides add to what they pass on.
Stamp(now) == (syncStatusField :> "modified") @@ ("_localUpdatedAt" :> now)

\* The arguments that reach Model.update when the caller writes
\* model.update(a, b): the override installed by watchChanges takes (id, data)
\* and calls originalUpdate(id, syncData).
UpdateCall(a, b, now) ==
    IF watch
    THEN [data |-> a, id |-> Obj(Spread(SpreadValue(b), Stamp(now)))]
    ELSE [data |-> a, id |-> b]

\* model.update(a, b)
Update(s, a, b, now) ==
    LET c == UpdateCall(a, b, now) IN ModelUpdate(s, c.data, c.id)

\* model.create(data)
Create(s, data, gen, now) ==
    ModelCreate(s, IF watch THEN Spread(data, Stamp(now)) ELSE data, gen)

\* localItem[f], localItem being the array find() returned
ArrayField(arr, f) == Undefined

\* { ...localItem } of that array: its indices as keys
ArraySpread(arr) ==
    [k \in {ToString(j - 1) : j \in 1..Len(arr)} |->
        arr[CHOOSE j \in 1..Len(arr) : ToString(j - 1) = k]]

\* The fields a pull writes for a remote item.
Pulled(serverItem, now) ==
    Spread(serverItem,
           (serverIdField :> serverItem[idField]) @@ (syncStatusField :> "synced")
           @@ (lastSyncField :> now))

\* handleConflict(localItem, serverItem): the model.update calls it starts, one
\* per element of localItem, as <<first argument, second argument>>.
ConflictCall(localItem, item, serverItem, now) ==
    IF conflictResolution = "server-wins"
    THEN <<[a |-> Str(item[idField]), b |-> Obj(Pulled(serverItem, now))]>>
    ELSE IF conflictResolution = "client-wins"
    THEN IF ArrayField(localItem, syncStatusField) # Str("modified")
         THEN <<[a |-> ArrayField(localItem, idField), b |-> Obj(Pulled(serverItem, now))]>>
         ELSE <<>>
    ELSE IF conflictResolution = "manual"
    THEN <<[a |-> ArrayField(localItem, idField),
            b |-> Obj(Spread(ArraySpread(localItem),
                             (syncStatusField :> "conflict")
                             @@ ("_serverVersion" :> serverItem)))]>>
    ELSE <<>>

RECURSIVE HandleConflictFrom(_, _, _, _)
HandleConflictFrom(localItem, i, serverItem, now) ==
    IF i > Len(localItem) THEN <<>>
    ELSE LET c == ConflictCall(localItem, localItem[i], serverItem, now)
         IN  [j \in 1..Len(c) |-> UpdateCall(c[j].a, c[j].b, now)]
             \o HandleConflictFrom(localItem, i + 1, serverItem, now)

HandleConflict(localItem, serverItem, now) ==
    HandleConflictFrom(localItem, 1, serverItem, now)

\* The update calls handleConflict started run to their end in the order they
\* were started.  Nothing awaits them: a rejection reaches no catch, and the
\* collection is what they leave.
RECURSIVE Settle(_, _)
Settle(s, calls) ==
    IF calls = <<>> THEN s
    ELSE Settle(ModelUpdate(s, Head(calls).data, Head(calls).id).store, Tail(calls))

\* pullFromServer, the loop over serverData.items: the collection it leaves,
\* whether it ended in the catch, and the handleConflict calls it made.
RECURSIVE PullItems(_, _, _, _)
PullItems(s, items, now, handed) ==
    IF items = <<>> THEN [ok |-> TRUE, store |-> s, handed |-> handed]
    ELSE IF ~StoreOpen THEN [ok |-> FALSE, store |-> s, handed |-> handed]
    ELSE
    LET item == Head(items)
        localItem == Find(s, (serverIdField :> Str(item[idField])))
    IN  IF Len(localItem) = 0
        THEN LET r == Create(s, Pulled(item, now), item[idField], now)
             IN  IF r.ok THEN PullItems(r.store, Tail(items), now, handed)
                 ELSE [ok |-> FALSE, store |-> s, handed |-> handed]
        ELSE PullItems(Settle(s, HandleConflict(localItem, item, now)), Tail(items), now,
                       Append(handed, [localItem |-> localItem, serverItem |-> item]))

\* pullFromServer(lastSyncTimestamp): resp is the remote answer; resp.ok is
\* FALSE when fetch or response.json() throws.  Its catch returns
\* {success: false}.
PullFromServer(s, resp, now) ==
    IF ~resp.ok THEN [ok |-> FALSE, store |-> s, handed |-> <<>>]
    ELSE PullItems(s, resp.items, now, <<>>)

PrepareForSyncKeepsLocalStamp(item) ==
    [f \in DOMAIN item \ {syncStatusField, serverIdField, lastSyncField, "_syncErrors"}
        |-> item[f]]

\* prepareForSync(item)
PrepareForSync(item) ==
    [f \in DOMAIN item
          \ {syncStatusField, serverIdField, lastSyncField, "_syncErrors", "_localUpdatedAt"}
        |-> item[f]]

\* pushToServer: the change set built from the records find() returned.
Changeset(s) ==
    LET modifiedItems == Find(s, (syncStatusField :> Str("modified")))
    IN  [i \in 1..Len(modifiedItems) |->
            [id |-> QueryValue(modifiedItems[i], serverIdField),
             data |-> PrepareForSync(modifiedItems[i]),
             localId |-> modifiedItems[i][idField]]]

\* pushToServer: the awaited update per acknowledgment; the first that rejects
\* ends the loop in the catch.
RECURSIVE PushAcks(_, _, _)
PushAcks(s, acks, now) ==
    IF acks = <<>> THEN [ok |-> TRUE, store |-> s]
    ELSE LET synced == Head(acks)
             r == Update(s, Str(synced.localId),
                         Obj((syncStatusField :> "synced")
                             @@ (serverIdField :> synced.serverId)
                             @@ (lastSyncField :> now)),
                         now)
         IN  IF r.ok THEN PushAcks(r.store, Tail(acks), now)
             ELSE [ok |-> FALSE, store |-> r.store]

PushBody(s, resp, now) ==
    IF ~StoreOpen
    THEN [ok |-> FALSE, thrown |-> TRUE, store |-> s, sent |-> "none", changes |-> <<>>]
    ELSE IF ~resp.ok
    THEN [ok |-> FALSE, thrown |-> TRUE, store |-> s, sent |-> "failed",
          changes |-> Changeset(s)]
    ELSE LET r == PushAcks(s, resp.synchronized, now)
         IN  [ok |-> r.ok, thrown |-> ~r.ok, store |-> r.store, sent |-> "answered",
              changes |-> Changeset(s)]

\* pushToServer(): its catch turns whatever was thrown into {success: false}.
PushToServer(s, resp, now) ==
    [PushBody(s, resp, now) EXCEPT !.thrown = FALSE]

\* getLastSyncTimestamp(): the outcomes it can have: a returned value (NoTime
\* for null or undefined) or a TypeError, when find() rejected, the catch logged
\* it and .length is read of undefined.  The sort key of a record without lastSync is an
\* invalid Date, the comparator returns NaN for it and the order of the result
\* is implementation-defined.
LastSyncOf(r) == IF lastSyncField \in DOMAIN r THEN r[lastSyncField] ELSE NoTime

GetLastSyncTimestamp(s) ==
    IF ~StoreOpen THEN {[thrown |-> TRUE, ts |-> NoTime]}
    ELSE LET found == Find(s, (syncStatusField :> Str("synced")))
             all == {found[i] : i \in 1..Len(found)}
         IN  IF all = {} THEN {[thrown |-> FALSE, ts |-> NoTime]}
             ELSE IF \A r \in all : lastSyncField \in DOMAIN r
             THEN {[thrown |-> FALSE,
                    ts |-> CHOOSE m \in {LastSyncOf(r) : r \in all} :
                               \A r \in all : LastSyncOf(r) <= m]}
             ELSE {[thrown |-> FALSE, ts |-> LastSyncOf(r)] : r \in all}

\* sync(): the order of its awaited calls.
SyncStepsMarkFirst == <<"mark", "push", "pull">>

SyncSteps == <<"push", "mark", "pull">>

\* ------------------------------------------------------------------ inputs
Opt(f, S) == {EmptyObj} \cup {(f :> v) : v \in S}

\* What the application passes to create: a name, with or without an explicit
\* (or an empty) primary key and a sync status of its own, or with a server id.
CreateInputs ==
    {Spread(("name" :> "a"), Spread(k, st)) :
        k \in Opt(primary, Keys \cup {""}),
        st \in Opt(syncStatusField, {"modified", "conflict"})}
    \cup {("name" :> "a") @@ ("_serverId" :> "k1")}

\* What the application passes to update as the patch.
UpdateInputs ==
    {("name" :> n) : n \in Names}
    \cup {("name" :> "b") @@ (syncStatusField :> "modified"),
          ("name" :> "b") @@ (primary :> "k1"),
          (syncStatusField :> "modified")}

SeqsUpTo(S, n) == UNION {[1..m -> S] : m \in 0..n}

\* What the remote authority answers to a pull and to a push.
RemoteItems == [_id : Keys, name : Names]
PullResponses ==
    {[ok |-> FALSE, items |-> <<>>]}
    \cup {[ok |-> TRUE, items |-> q] : q \in SeqsUpTo(RemoteItems, MaxBatch)}
Acks == [localId : Keys, serverId : AckServerIds]
PushResponses ==
    {[ok |-> FALSE, synchronized |-> <<>>]}
    \cup {[ok |-> TRUE, synchronized |-> q] : q \in SeqsUpTo(Acks, MaxBatch)}

\* new Model(name, schema, options) followed by connect() on a new database:
\* the stores the upgrade creates and the collection CRUD runs against.
ModelOptions == {[collections |-> {}, active |-> ""], [collections |-> {"c1"}, active |-> ""]}
ConstructedActive(name, options) == IF options.active # "" THEN options.active ELSE name
ConnectedStores(name, options) ==
    IF options.collections # {} THEN options.collections ELSE {name}

\* Array.from(db.objectStoreNames): the names of the stores, sorted.
StoreOrder == <<"c1", "c2", "db">>
StoreNames == {StoreOrder[i] : i \in 1..Len(StoreOrder)}
ArrayFrom(names) == SelectSeq(StoreOrder, LAMBDA n : n \in names)

\* this.db: null, or a connection with the store names it saw when it opened.
NoHandle == [t |-> "null"]
Handle(names) == [t |-> "handle", open |-> TRUE, objectStoreNames |-> names]

\* The engine after connect() has created the database at version 1 with the
\* stores names, all empty, and kept the connection.
Connected(names) ==
    /\ version = 1
    /\ collections = ArrayFrom(names)
    /\ db = Handle(names)
    /\ database = [exists |-> TRUE, version |-> 1, stores |-> [n \in names |-> {}]]
    /\ connections = 1

\* The callers whose calls may be in flight together.
Callers == {"p1", "p2"}

\* A caller that has no call in flight.
NotCalled == [op |-> "none"]

\* No call is in flight and no transaction is alive.
NoneInFlight ==
    /\ inFlight = [p \in Callers |-> NotCalled]
    /\ txns = <<>>

NoRun == [pushDone |-> FALSE, pushOk |-> FALSE, markDone |-> FALSE,
          markAfterPush |-> FALSE, ts |-> NoTime, start |-> EmptyObj]

\* No call is waiting to be returned to the application.
NoCall == [op |-> "none"]

Init ==
    /\ store = EmptyObj
    /\ \E o \in ModelOptions :
          /\ activeCollection = ConstructedActive("db", o)
          /\ objectStoreNames = ConnectedStores("db", o)
    /\ watch = FALSE
    /\ conflictResolution \in Policies
    /\ serverIdField \in ServerIdOptions
    /\ clock = 0
    /\ syncPc = 0
    /\ syncRun = NoRun
    /\ last = NoCall
    /\ Connected(objectStoreNames)
    /\ NoneInFlight

config == <<activeCollection, objectStoreNames, conflictResolution, serverIdField>>
syncVars == <<syncPc, syncRun>>

\* The application is between two calls: none is waiting to be returned and no
\* sync() is between two of its awaited calls.
Idle == last = NoCall /\ syncPc = 0

\* new Date() later returns a later instant.
Tick ==
    /\ Idle
    /\ clock < MaxClock
    /\ clock' = clock + 1
    /\ UNCHANGED <<store, watch, last, config, engine, flight, syncVars>>

WatchChanges ==
    /\ Idle
    /\ ~watch
    /\ watch' = TRUE
    /\ UNCHANGED <<store, clock, last, config, engine, flight, syncVars>>

\* The application calls model.create(data).
AppCreate ==
    /\ Idle
    /\ \E data \in CreateInputs :
          \E gen \in IF NoPrimaryKey(data) THEN Keys ELSE {data[primary]} :
              LET r == Create(store, data, gen, clock)
              IN  /\ store' = r.store
                  /\ last' = [op |-> "create", ok |-> r.ok, err |-> r.err, data |-> data,
                              key |-> gen, ret |-> IF r.ok THEN r.ret ELSE EmptyObj,
                              before |-> store]
    /\ UNCHANGED <<watch, clock, config, engine, flight, syncVars>>

\* The application calls model.update(patch, id), id possibly left out.
AppUpdate ==
    /\ Idle
    /\ \E patch \in UpdateInputs, id \in {Undefined} \cup {Str(k) : k \in Keys} :
          LET r == Update(store, Obj(patch), id, clock)
          IN  /\ store' = r.store
              /\ last' = [op |-> "update", ok |-> r.ok, err |-> r.err, patch |-> patch,
                          id |-> id, before |-> store]
    /\ UNCHANGED <<watch, clock, config, engine, flight, syncVars>>

\* The application calls model.delete(id).
AppDelete ==
    /\ Idle
    /\ \E id \in Keys :
          LET r == ModelDelete(store, id)
          IN  /\ store' = r.store
              /\ last' = [op |-> "delete", ok |-> r.ok, key |-> id, before |-> store]
    /\ UNCHANGED <<watch, clock, config, engine, flight, syncVars>>

\* syncManager.pushToServer() called on its own.
Push ==
    /\ Idle
    /\ \E resp \in PushResponses :
          LET r == PushToServer(store, resp, clock)
          IN  /\ store' = r.store
              /\ last' = [op |-> "push", ok |-> r.ok, sent |-> r.sent,
                          changes |-> r.changes, acks |-> resp.synchronized,
                          before |-> store]
    /\ UNCHANGED <<watch, clock, config, engine, flight, syncVars>>

\* syncManager.pullFromServer() called on its own.
Pull ==
    /\ Idle
    /\ \E resp \in PullResponses :
          LET r == PullFromServer(store, resp, clock)
          IN  /\ store' = r.store
              /\ last' = [op |-> "pull", ok |-> r.ok, answered |-> resp.ok,
                          items |-> resp.items, handed |-> r.handed, before |-> store]
    /\ UNCHANGED <<watch, clock, config, engine, flight, syncVars>>

\* The call returns to the application, which goes on.
Return ==
    /\ last # NoCall
    /\ last' = NoCall
    /\ UNCHANGED <<store, watch, clock, config, engine, flight, syncVars>>

\* sync() returns from its try or from its catch.
SyncReturn(run, threw, pulled) ==
    [op |-> "sync", thrown |-> FALSE, success |-> ~threw, pushOk |-> run.pushOk,
     pushDone |-> run.pushDone, markDone |-> run.markDone,
     markAfterPush |-> run.markAfterPush, pulled |-> pulled, ts |-> run.ts,
     before |-> run.start]

\* The sync() that takes a step: one already running, or one the application
\* calls now.
Running == IF syncPc = 0 THEN [NoRun EXCEPT !.start = store] ELSE syncRun

SyncLeaves(result) ==
    /\ last' = result
    /\ syncPc' = 0
    /\ syncRun' = NoRun

SyncGoesOn(run) ==
    /\ syncPc' = syncPc + 1
    /\ syncRun' = run
    /\ UNCHANGED last

\* sync(): await this.pushToServer()
SyncPushStep ==
    /\ last = NoCall
    /\ SyncSteps[syncPc + 1] = "push"
    /\ \E resp \in PushResponses :
          LET r == PushToServer(store, resp, clock)
          IN  /\ store' = r.store
              /\ IF r.thrown
                 THEN SyncLeaves(SyncReturn(Running, TRUE, FALSE))
                 ELSE SyncGoesOn([Running EXCEPT !.pushDone = TRUE, !.pushOk = r.ok])
    /\ UNCHANGED <<watch, clock, config, engine, flight>>

\* sync(): await this.getLastSyncTimestamp()
SyncMarkStep ==
    /\ last = NoCall
    /\ SyncSteps[syncPc + 1] = "mark"
    /\ \E m \in GetLastSyncTimestamp(store) :
          IF m.thrown
          THEN SyncLeaves(SyncReturn(Running, TRUE, FALSE))
          ELSE SyncGoesOn([Running EXCEPT !.markDone = TRUE, !.ts = m.ts,
                                          !.markAfterPush = Running.pushDone])
    /\ UNCHANGED <<store, watch, clock, config, engine, flight>>

\* sync(): await this.pullFromServer(lastSync), then return
SyncPullStep ==
    /\ last = NoCall
    /\ SyncSteps[syncPc + 1] = "pull"
    /\ \E resp \in PullResponses :
          store' = PullFromServer(store, resp, clock).store
    /\ SyncLeaves(SyncReturn(Running, FALSE, TRUE))
    /\ UNCHANGED <<watch, clock, config, engine, flight>>

Next ==
    \/ Tick
    \/ WatchChanges
    \/ AppCreate
    \/ AppUpdate
    \/ AppDelete
    \/ Push
    \/ Pull
    \/ Return
    \/ SyncPushStep
    \/ SyncMarkStep
    \/ SyncPullStep

Spec == Init /\ [][Next]_vars

\* ------------------------------------------------------------ the queries
\* find and deleteMany over the collections of a model whose schema declares
\* a name and an optional age, with the operators of _matchesQuery.
Ages == {25, 30, 35}
QueryRecords(k) ==
    {(primary :> k) @@ ("name" :> n) : n \in Names}
    \cup {(primary :> k) @@ ("name" :> n) @@ ("age" :> a) : n \in Names, a \in Ages}
QueryStores ==
    UNION {{s \in [ks -> UNION {QueryRecords(k) : k \in ks}] :
               \A k \in ks : s[k][primary] = k} : ks \in SUBSET Keys}

\* The clauses a query states about the age and about the name.
AgeClauses ==
    {Num(a) : a \in Ages} \cup {Undefined}
    \cup {Obj((o :> a)) : o \in {"$gt", "$gte", "$lt", "$lte", "$ne", "$eq"}, a \in Ages}
    \cup {Obj((o :> S)) : o \in {"$in", "$nin"}, S \in {{}, {25}, {25, 30}}}
    \cup {Obj(("$gte" :> a) @@ ("$lte" :> b)) : a \in Ages, b \in Ages}
    \cup {Obj(("$gt" :> 25) @@ ("$eq" :> 30))}
NameClauses ==
    {Str(n) : n \in Names}
    \cup {Obj(("$ne" :> n)) : n \in Names}
    \cup {Obj(("$in" :> {"a"})), Obj(("$regex" :> "a"))}
Queries ==
    {Spread(a, n) : a \in Opt("age", AgeClauses), n \in Opt("name", NameClauses)}

\* What a caller passes to find and to deleteMany: nothing, {query: q}, or the
\* predicate q itself, as the tests and IrisUtils.cleanup do.
QueryArgs == {[query |-> q] : q \in Queries} \cup Queries

InitQuery ==
    /\ store \in QueryStores
    /\ activeCollection = "db"
    /\ objectStoreNames = {"db"}
    /\ watch = FALSE
    /\ conflictResolution = "server-wins"
    /\ serverIdField = "_id"
    /\ clock = 0
    /\ syncPc = 0
    /\ syncRun = NoRun
    /\ last = NoCall
    /\ Connected(objectStoreNames)
    /\ NoneInFlight

\* The application calls model.find(arg).
AppFind ==
    /\ Idle
    /\ \E arg \in QueryArgs :
          last' = [op |-> "find", arg |-> arg, result |-> Find(store, arg)]
    /\ UNCHANGED <<store, watch, clock, config, engine, flight, syncVars>>

\* The application calls model.deleteMany(arg).
AppDeleteMany ==
    /\ Idle
    /\ \E arg \in QueryArgs :
          /\ store' = DeleteMany(store, arg)
          /\ last' = [op |-> "deleteMany", arg |-> arg, before |-> store]
    /\ UNCHANGED <<watch, clock, config, engine, flight, syncVars>>

NextQuery ==
    \/ AppFind
    \/ AppDeleteMany
    \/ Return

SpecQuery == InitQuery /\ [][NextQuery]_vars

\* ------------------------------------------------------------ validation
\* The data the application passes to create and update: a name that is a
\* string, a number, or left out; an age that is a number the validator takes
\* or refuses, a string, null, or left out; a primary key or none.
TypedInputs ==
    {Spread(n, Spread(a, k)) :
        n \in Opt("name", {Str("a"), Num(1)}),
        a \in Opt("age", {Num(5), Num(-1), Str("x"), Null}),
        k \in Opt(primary, {Str(i) : i \in Keys} \cup {Str("")})}

InitValidate ==
    /\ store = EmptyObj
    /\ activeCollection = "db"
    /\ objectStoreNames = {"db"}
    /\ watch = FALSE
    /\ conflictResolution = "server-wins"
    /\ serverIdField = "_id"
    /\ clock = 0
    /\ syncPc = 0
    /\ syncRun = NoRun
    /\ last = NoCall
    /\ Connected(objectStoreNames)
    /\ NoneInFlight

\* The application calls model.create(data).
CreateChecked ==
    /\ Idle
    /\ \E data \in TypedInputs : \E gen \in Keys :
          LET r == CreateTyped(store, UserDefinition, data, gen)
          IN  /\ store' = r.store
              /\ last' = [op |-> "create", ok |-> r.ok, err |-> r.err,
                          errors |-> r.errors, data |-> data, key |-> gen,
                          before |-> store]
    /\ UNCHANGED <<watch, clock, config, engine, flight, syncVars>>

\* The application calls model.update(data, id).
UpdateChecked ==
    /\ Idle
    /\ \E data \in TypedInputs, id \in {Undefined} \cup {Str(k) : k \in Keys} :
          LET r == UpdateTyped(store, UserDefinition, data, id)
          IN  /\ store' = r.store
              /\ last' = [op |-> "update", ok |-> r.ok, err |-> r.err,
                          errors |-> r.errors, data |-> data, id |-> id,
                          before |-> store]
    /\ UNCHANGED <<watch, clock, config, engine, flight, syncVars>>

NextValidate ==
    \/ CreateChecked
    \/ UpdateChecked
    \/ Return

SpecValidate == InitValidate /\ [][NextValidate]_vars

\* ------------------------------------------- connections and collections
\* connect, disconnect, refresh, addCollections and switchCollection of one
\* Model over the IndexedDB database of its name.  The database is what an
\* earlier session left: nothing, or a version with its stores and records.
DbName == "db"
MaxVersion == 3
MaxConnections == 2

Range(q) == {q[i] : i \in 1..Len(q)}
HasDuplicates(q) == \E i \in 1..Len(q) : \E j \in 1..Len(q) : i # j /\ q[i] = q[j]

NoDatabase == [exists |-> FALSE, version |-> 0, stores |-> EmptyObj]

\* The Model object and the database it talks to, as one value.
Engine ==
    [version |-> version, collections |-> collections, db |-> db,
     activeCollection |-> activeCollection, database |-> database,
     connections |-> connections]

\* syncVersion(version): the version connect() will ask for.  fails: the call
\* indexedDB.databases() rejects, and the catch answers 1.
SyncVersion(v, d, fails) ==
    IF fails THEN 1
    ELSE IF d.exists THEN (IF v < d.version THEN d.version ELSE v)
    ELSE 1

\* indexedDB.open(name, v) on the database d while others connections are
\* open: a lower version is refused, the same version opens as it is, a higher
\* version waits for the other connections to close and then runs
\* onupgradeneeded, which creates the stores creates or throws and aborts.
IndexedDBOpen(d, v, others, creates, throws) ==
    IF v < d.version THEN [outcome |-> "VersionError", database |-> d]
    ELSE IF v = d.version THEN [outcome |-> "success", database |-> d]
    ELSE IF others > 0 THEN [outcome |-> "blocked", database |-> d]
    ELSE IF throws THEN [outcome |-> "AbortError", database |-> d]
    ELSE [outcome |-> "success",
          database |-> [exists |-> TRUE, version |-> v,
                        stores |-> [n \in DOMAIN d.stores \cup creates |->
                                       IF n \in DOMAIN d.stores THEN d.stores[n] ELSE {}]]]

\* What a promise does that hangs on a request: it resolves, rejects, or stays
\* pending while the request is blocked.
Settled(outcome) ==
    CASE outcome = "success" -> "resolved"
      [] outcome = "blocked" -> "pending"
      [] OTHER -> "rejected"

NoResult == [t |-> "undefined"]

\* onupgradeneeded of connect(): the declared collections, or the store named
\* after the database when none is declared, each created unless it exists.
ConnectCreates(m) ==
    (IF Len(m.collections) > 0 THEN Range(m.collections) ELSE {DbName})
        \ DOMAIN m.database.stores

\* Model.connect()
Connect(m, fails) ==
    LET v == SyncVersion(m.version, m.database, fails)
        r == IndexedDBOpen(m.database, v, m.connections, ConnectCreates(m), FALSE)
        m1 == [m EXCEPT !.version = v]
    IN  IF r.outcome = "success"
        THEN [m |-> [m1 EXCEPT !.database = r.database,
                               !.db = Handle(DOMAIN r.database.stores),
                               !.collections = ArrayFrom(DOMAIN r.database.stores),
                               !.connections = @ + 1],
              outcome |-> "resolved", result |-> NoResult]
        ELSE [m |-> m1, outcome |-> Settled(r.outcome), result |-> NoResult]

\* Model.disconnect(): close() of a connection that is closed changes nothing.
Disconnect(m) ==
    IF m.db.t = "handle"
    THEN [m EXCEPT !.db = NoHandle,
                   !.connections = IF m.db.open THEN @ - 1 ELSE @]
    ELSE m

\* Model.refresh()
Refresh(m, fails) == Connect(Disconnect(m), fails)

\* The part of addCollections after the connection is there.
AddToConnected(m, names) ==
    LET existing == m.db.objectStoreNames
        newCollections == SelectSeq(names, LAMBDA n : n \notin existing)
        others == m.connections - (IF m.db.open THEN 1 ELSE 0)
        r == IndexedDBOpen(m.database, m.version + 1, others, Range(newCollections),
                           \/ HasDuplicates(newCollections)
                           \/ Range(newCollections) \cap DOMAIN m.database.stores # {})
        m1 == [m EXCEPT !.version = @ + 1,
                        !.db = [@ EXCEPT !.open = FALSE],
                        !.connections = others,
                        !.collections = ArrayFrom(existing) \o newCollections]
    IN  IF Len(newCollections) = 0
        THEN [m |-> m, outcome |-> "resolved",
              result |-> [success |-> FALSE, addedCollections |-> <<>>,
                          allCollections |-> ArrayFrom(existing)]]
        ELSE IF r.outcome = "success"
        THEN [m |-> [m1 EXCEPT !.database = r.database,
                               !.db = Handle(DOMAIN r.database.stores),
                               !.connections = @ + 1],
              outcome |-> "resolved",
              result |-> [success |-> TRUE, addedCollections |-> newCollections,
                          allCollections |-> ArrayFrom(DOMAIN r.database.stores)]]
        ELSE [m |-> m1, outcome |-> Settled(r.outcome), result |-> NoResult]

AddCollectionsAlwaysUpgrades(m, names, fails) ==
    AddToConnected(
        [m EXCEPT !.db = [t |-> "handle", open |-> m.db.t = "handle" /\ m.db.open,
                          objectStoreNames |-> {}]],
        names)

\* Model.addCollections(collections): connects first when there is no handle.
AddCollections(m, names, fails) ==
    LET c == IF m.db.t = "null" THEN Connect(m, fails)
             ELSE [m |-> m, outcome |-> "resolved", result |-> NoResult]
    IN  IF c.outcome = "resolved" THEN AddToConnected(c.m, names) ELSE c

SwitchCollectionUnchecked(m, collectionName) ==
    [m |-> [m EXCEPT !.activeCollection = collectionName], outcome |-> "resolved",
     result |-> Str(collectionName)]

\* Model.switchCollection(collectionName): the error it throws for an unknown
\* name is caught inside and answered with null.
SwitchCollection(m, collectionName) ==
    IF collectionName \in Range(m.collections)
    THEN [m |-> [m EXCEPT !.activeCollection = collectionName], outcome |-> "resolved",
          result |-> Str(collectionName)]
    ELSE [m |-> m, outcome |-> "resolved", result |-> Null]

\* new Model(name, schema, options): the version and the collections asked
\* for, and the active collection, the database's name unless one is given.
EngineOptions ==
    [version : 1..2,
     collections : {<<>>, <<"c1">>, <<"c1", "c2">>},
     active : {"", "c1"}]

\* The database an earlier session left under the model's name.
PriorDatabases ==
    {NoDatabase,
     [exists |-> TRUE, version |-> 1, stores |-> ("db" :> {"k1"})],
     [exists |-> TRUE, version |-> 1, stores |-> ("c1" :> {})],
     [exists |-> TRUE, version |-> 2, stores |-> ("c1" :> {"k1"}) @@ ("c2" :> {})]}

\* The names addCollections is asked for.
RequestedNames == UNION {[1..n -> StoreNames] : n \in 1..2}

InitConnect ==
    /\ store = EmptyObj
    /\ watch = FALSE
    /\ conflictResolution = "server-wins"
    /\ serverIdField = "_id"
    /\ clock = 0
    /\ syncPc = 0
    /\ syncRun = NoRun
    /\ last = NoCall
    /\ \E o \in EngineOptions :
          /\ version = o.version
          /\ collections = o.collections
          /\ activeCollection = ConstructedActive(DbName, o)
    /\ db = NoHandle
    /\ database \in PriorDatabases
    /\ objectStoreNames = DOMAIN database.stores
    /\ connections = 0
    /\ NoneInFlight

\* The call has run: the engine and the database are as it left them, and its
\* outcome is held until it returns.
Ran(op, arg, r) ==
    /\ version' = r.m.version
    /\ collections' = r.m.collections
    /\ db' = r.m.db
    /\ activeCollection' = r.m.activeCollection
    /\ database' = r.m.database
    /\ connections' = r.m.connections
    /\ objectStoreNames' = DOMAIN r.m.database.stores
    /\ last' = [op |-> op, arg |-> arg, outcome |-> r.outcome, result |-> r.result,
                before |-> Engine]
    /\ UNCHANGED <<store, watch, clock, conflictResolution, serverIdField, flight, syncVars>>

AppConnect ==
    /\ Idle
    /\ connections < MaxConnections
    /\ \E fails \in BOOLEAN : Ran("connect", [fails |-> fails], Connect(Engine, fails))

AppDisconnect ==
    /\ Idle
    /\ Ran("disconnect", EmptyObj,
           [m |-> Disconnect(Engine), outcome |-> "resolved", result |-> NoResult])

AppRefresh ==
    /\ Idle
    /\ \E fails \in BOOLEAN : Ran("refresh", [fails |-> fails], Refresh(Engine, fails))

AppAddCollections ==
    /\ Idle
    /\ version < MaxVersion
    /\ \E names \in RequestedNames :
          \E fails \in BOOLEAN :
              Ran("addCollections", [collections |-> names, fails |-> fails],
                  AddCollections(Engine, names, fails))

AppSwitchCollection ==
    /\ Idle
    /\ \E collectionName \in StoreNames :
          Ran("switchCollection", [collectionName |-> collectionName],
              SwitchCollection(Engine, collectionName))

NextConnect ==
    \/ AppConnect
    \/ AppDisconnect
    \/ AppRefresh
    \/ AppAddCollections
    \/ AppSwitchCollection
    \/ Return

SpecConnect == InitConnect /\ [][NextConnect]_vars

\* ------------------------------------------------------------------ Schema
\* Schema.toDocument and Schema.toObject.  An object is a function from its
\* own keys to JS values; a key may be present with the value undefined.
\* obj[field]: undefined for a key the object does not have.
Get(obj, field) == IF field \in DOMAIN obj THEN obj[field] ELSE Undefined

ToDocumentOfFalsy(definition, data) ==
    [f \in DOMAIN data \cup DOMAIN definition |->
        IF f \in DOMAIN definition
           /\ (Get(data, f) \in {Undefined, Null} \/ Get(data, f) = Num(0))
        THEN Null ELSE data[f]]

\* toDocument(data): a copy of data in which every declared field that is
\* undefined is null.
ToDocument(definition, data) ==
    [f \in DOMAIN data \cup DOMAIN definition |->
        IF f \in DOMAIN definition /\ Get(data, f) = Undefined THEN Null ELSE data[f]]

\* toObject(document): a copy of document in which every declared field that
\* is null is undefined.
ToObject(definition, document) ==
    [f \in DOMAIN document |->
        IF f \in DOMAIN definition /\ document[f] = Null THEN Undefined ELSE document[f]]

\* The schemas: any of the fields name and age declared, as in the Schema tests.
Definitions ==
    {[f \in S |-> [type |-> IF f = "name" THEN "string" ELSE "number"]] :
        S \in SUBSET {"name", "age"}}

\* The objects handed to toDocument: each field a value, null, undefined, or
\* not there; note is a field no schema declares.
SchemaInputs ==
    {Spread(n, Spread(a, x)) :
        n \in Opt("name", {Str("a"), Str(""), Null, Undefined}),
        a \in Opt("age", {Num(30), Num(0), Null, Undefined}),
        x \in Opt("note", {Str("x"), Null})}

InitSchema ==
    /\ store = EmptyObj
    /\ activeCollection = "db"
    /\ objectStoreNames = {"db"}
    /\ watch = FALSE
    /\ conflictResolution = "server-wins"
    /\ serverIdField = "_id"
    /\ clock = 0
    /\ syncPc = 0
    /\ syncRun = NoRun
    /\ last = NoCall
    /\ Connected(objectStoreNames)
    /\ NoneInFlight

\* The application calls schema.toDocument(data).
AppToDocument ==
    /\ Idle
    /\ \E definition \in Definitions, data \in SchemaInputs :
          last' = [op |-> "toDocument", definition |-> definition, data |-> data,
                   document |-> ToDocument(definition, data)]
    /\ UNCHANGED <<store, watch, clock, config, engine, flight, syncVars>>

\* The application calls schema.toObject(document) on the document it got.
AppToObject ==
    /\ last # NoCall
    /\ last.op = "toDocument"
    /\ last' = [op |-> "toObject", definition |-> last.definition, data |-> last.data,
                document |-> last.document,
                object |-> ToObject(last.definition, last.document)]
    /\ UNCHANGED <<store, watch, clock, config, engine, flight, syncVars>>

NextSchema ==
    \/ AppToDocument
    \/ AppToObject
    \/ Return

SpecSchema == InitSchema /\ [][NextSchema]_vars

\* ------------------------------------------------------ literals in a query
\* find over records whose field holds a value of any type a schema field can
\* hold.  A Date, an array and an object are JS objects: each has an identity
\* (ref), and a record read from the store is a structured clone, a new object.
Bool(b) == [t |-> "boolean", v |-> b]
DateAt(ms, ref) == [t |-> "date", v |-> ms, ref |-> ref]
Arr(elements, ref) == [t |-> "array", v |-> elements, ref |-> ref]
ObjAt(fields, ref) == [t |-> "object", v |-> fields, ref |-> ref]
ObjectTypes == {"date", "array", "object"}

\* a === b: a value of a primitive type equals the same value of the same
\* type, an object equals only itself.
StrictEquals(a, b) ==
    /\ a.t = b.t
    /\ IF a.t \in ObjectTypes THEN a.ref = b.ref ELSE a = b

\* value && typeof value === "object"
IsOperatorObject(value) == value.t \in ObjectTypes

\* The keys of Object.entries(value): a Date has no own enumerable property,
\* an array has its indices, an object its fields.
IndexKeys == <<"0", "1">>
EntryKeys(value) ==
    CASE value.t = "date" -> {}
      [] value.t = "array" -> {IndexKeys[i] : i \in 1..Len(value.v)}
      [] OTHER -> DOMAIN value.v

\* The operand Object.entries(value) pairs with a key.
EntryValue(value, k) ==
    IF value.t = "array"
    THEN value.v[CHOOSE i \in 1..Len(value.v) : IndexKeys[i] = k]
    ELSE value.v[k]

\* _matchesQuery on a query of one clause [key, value] whose value is a
\* literal of any type.
MatchesClause(item, key, value) ==
    IF IsOperatorObject(value)
    THEN \A operator \in EntryKeys(value) :
             OperatorMatches(item, key, operator, EntryValue(value, operator))
    ELSE StrictEquals(ValueOf(item, key), value)

\* find({query: {[key]: value}})
FindClause(s, key, value) ==
    SelectSeq(Scan(s), LAMBDA r : MatchesClause(r, key, value))

\* The values of the field "value" of a record, and of a literal.
LiteralValues(ref) ==
    {Str("a"), Str("b"), Num(0), Num(1), Bool(TRUE), Bool(FALSE), Null,
     DateAt(1, ref), DateAt(2, ref), Arr(<<"a">>, ref), Arr(<<"a", "b">>, ref),
     ObjAt(("x" :> 1), ref)}
LiteralRecords(k) ==
    {(primary :> Str(k))}
    \cup {(primary :> Str(k)) @@ ("value" :> v) : v \in LiteralValues("stored")}
LiteralStores ==
    UNION {{s \in [ks -> UNION {LiteralRecords(k) : k \in ks}] :
               \A k \in ks : s[k][primary] = Str(k)} : ks \in SUBSET Keys}

InitLiteral ==
    /\ store \in LiteralStores
    /\ activeCollection = "db"
    /\ objectStoreNames = {"db"}
    /\ watch = FALSE
    /\ conflictResolution = "server-wins"
    /\ serverIdField = "_id"
    /\ clock = 0
    /\ syncPc = 0
    /\ syncRun = NoRun
    /\ last = NoCall
    /\ Connected(objectStoreNames)
    /\ NoneInFlight

\* The application calls model.find({query: {value: literal}}).
AppFindLiteral ==
    /\ Idle
    /\ \E value \in LiteralValues("literal") :
          last' = [op |-> "find", arg |-> [query |-> ("value" :> value)],
                   result |-> FindClause(store, "value", value)]
    /\ UNCHANGED <<store, watch, clock, config, engine, flight, syncVars>>

NextLiteral ==
    \/ AppFindLiteral
    \/ Return

SpecLiteral == InitLiteral /\ [][NextLiteral]_vars

\* ---------------------------------------------------------- calls in flight
\* create and update at the grain of their suspension points, for two callers
\* whose calls may be in flight together on one connected engine with the
\* collections c1 and c2, while the application switches the active
\* collection.  Here database.stores holds the records of each store, and the
\* schema is that of the sync test with the server id declared unique.
RaceCollections == <<"c1", "c2">>

\* generateObjectId() returns an identifier no record and no other call has.
GeneratedIds == [p \in Callers |-> IF p = "p1" THEN "g1" ELSE "g2"]

\* Object.entries(schema.definition) restricted to the fields declared unique:
\* the primary key the constructor declares, then the server id that
\* prepareSyncSchema adds.
UniqueEntries == <<primary, "_serverId">>

\* The IndexedDB rule for transactions whose scopes overlap: a transaction runs
\* its requests once no transaction created before it on the same store is
\* alive, unless both only read.
RunnableAtOnce(q, i) == TRUE

Runnable(q, i) ==
    \A j \in 1..(i - 1) :
        \/ q[j].collection # q[i].collection
        \/ (q[j].mode = "readonly" /\ q[i].mode = "readonly")

\* The place of a caller's transaction among those alive.
TxnIndex(q, p) == CHOOSE i \in 1..Len(q) : q[i].caller = p

\* _executeTransaction: this.db.transaction(this.activeCollection, mode).
BeginTxn(q, p, collection, mode) ==
    Append(q, [caller |-> p, collection |-> collection, mode |-> mode])

\* The transaction completes or aborts.
EndTxn(q, p) == SelectSeq(q, LAMBDA x : x.caller # p)

\* The collection the write of an operation that probed first is opened on.
WriteCollectionPinned(probed, active) == probed[1]

WriteCollection(probed, active) == active

\* find({query: {[field]: data[field]}}).length > 0 on the records of a store.
ProbeFinds(records, data, field) ==
    \E r \in records : MatchesQuery(r, (field :> QueryValue(data, field)))

\* store.put(doc) on the records of a store.
PutRecord(records, doc) ==
    {r \in records : r[primary] # doc[primary]} \cup {doc}

\* The call of caller p is between its start and the end of its transaction.
InFlight(p) == inFlight[p].op # "none" /\ inFlight[p].pc # "done"

\* The callers are alike: the first call in flight is p1's.
NextCaller(p) == p = "p1" \/ inFlight["p1"].op # "none"

\* What the application passes to create and to update.
RaceCreateInputs ==
    {("name" :> "a"),
     ("name" :> "a") @@ ("_serverId" :> "s1"),
     ("name" :> "a") @@ (primary :> "k1")}
RacePatches ==
    {("name" :> "b"),
     ("name" :> "a") @@ (syncStatusField :> "modified"),
     (syncStatusField :> "modified")}

\* The records the stores hold at the start.
RaceStores ==
    {[c1 |-> a, c2 |-> b] :
        a \in {{(primary :> "k1") @@ ("name" :> "a")}},
        b \in {{(primary :> "k2") @@ ("name" :> "a") @@ ("_serverId" :> "s1")}}}

InitRace ==
    /\ store = EmptyObj
    /\ activeCollection = "c1"
    /\ objectStoreNames = {"c1", "c2"}
    /\ watch = FALSE
    /\ conflictResolution = "server-wins"
    /\ serverIdField = "_serverId"
    /\ clock = 0
    /\ syncPc = 0
    /\ syncRun = NoRun
    /\ last = NoCall
    /\ version = 1
    /\ collections = RaceCollections
    /\ db = Handle({"c1", "c2"})
    /\ \E s \in RaceStores : database = [exists |-> TRUE, version |-> 1, stores |-> s]
    /\ connections = 1
    /\ NoneInFlight

raceFixed == <<store, objectStoreNames, watch, conflictResolution, serverIdField, clock,
               last, version, collections, db, connections, syncVars>>

\* A call as it starts: nothing probed, nothing read, its promise pending.
Started(op, data, id, pc, p) ==
    [op |-> op, data |-> data, id |-> id, pc |-> pc, probe |-> 1, probed |-> <<>>,
     errors |-> {}, target |-> "", item |-> EmptyObj, outcome |-> "pending",
     err |-> "", txn |-> "none", undo |-> {}, activeAtCall |-> activeCollection,
     switchedTo |-> "", concurrent |-> \E q \in Callers \ {p} : InFlight(q)]

\* The promise of the call settles; a promise that is settled stays as it is.
SettledWith(c, outcome, err) ==
    IF c.outcome = "pending" THEN [c EXCEPT !.outcome = outcome, !.err = err] ELSE c

\* create(data) up to its first suspension: _validateData awaits
\* validatePrimaryKey before it touches the data.
CallCreate(p) ==
    /\ inFlight[p].op = "none"
    /\ NextCaller(p)
    /\ \E data \in RaceCreateInputs :
          inFlight' = [inFlight EXCEPT ![p] = Started("create", data, "", "called", p)]
    /\ UNCHANGED <<activeCollection, database, txns, raceFixed>>

\* _validateData goes on: it assigns the primary key, checks the required
\* fields and opens the transaction of the first find() on the collection
\* that is active now.
ValidateStep(p) ==
    /\ inFlight[p].op = "create" /\ inFlight[p].pc = "called"
    /\ LET c == inFlight[p]
           d1 == IF NoPrimaryKey(c.data)
                 THEN Spread(c.data, (primary :> GeneratedIds[p])) ELSE c.data
       IN  /\ inFlight' = [inFlight EXCEPT ![p] =
                  [c EXCEPT !.data = d1, !.id = d1[primary], !.pc = "probe",
                            !.errors = {<<"required", f>> : f \in Required \ DOMAIN d1},
                            !.probed = <<activeCollection>>,
                            !.txn = "alive"]]
           /\ txns' = BeginTxn(txns, p, activeCollection, "readonly")
    /\ UNCHANGED <<activeCollection, database, raceFixed>>

\* The cursor of a find() of _validateData reaches its end: the loop goes on to
\* the next unique field, or throws the errors, or create opens the readwrite
\* transaction on the collection that is active now.
ProbeStep(p) ==
    /\ inFlight[p].op = "create" /\ inFlight[p].pc = "probe"
    /\ Runnable(txns, TxnIndex(txns, p))
    /\ LET c == inFlight[p]
           field == UniqueEntries[c.probe]
           records == database.stores[txns[TxnIndex(txns, p)].collection]
           errors == c.errors \cup (IF ProbeFinds(records, c.data, field)
                                    THEN {<<"unique", field>>} ELSE {})
           q1 == EndTxn(txns, p)
       IN  IF c.probe < Len(UniqueEntries)
           THEN /\ inFlight' = [inFlight EXCEPT ![p] =
                       [c EXCEPT !.errors = errors, !.probe = c.probe + 1,
                                 !.probed = Append(c.probed, activeCollection)]]
                /\ txns' = BeginTxn(q1, p, activeCollection, "readonly")
           ELSE IF errors # {}
           THEN /\ inFlight' = [inFlight EXCEPT ![p] =
                       [SettledWith(c, "rejected", "Validation failed")
                           EXCEPT !.errors = errors, !.pc = "done", !.txn = "none"]]
                /\ txns' = q1
           ELSE /\ inFlight' = [inFlight EXCEPT ![p] =
                       [c EXCEPT !.pc = "add", !.txn = "alive",
                                 !.target = WriteCollection(c.probed, activeCollection)]]
                /\ txns' = BeginTxn(q1, p, WriteCollection(c.probed, activeCollection),
                                    "readwrite")
    /\ UNCHANGED <<activeCollection, database, raceFixed>>

\* store.add(doc) succeeds and the promise of create resolves, or the key is
\* taken: the request fails, the promise rejects and the transaction aborts.
AddStep(p) ==
    /\ inFlight[p].op = "create" /\ inFlight[p].pc = "add"
    /\ Runnable(txns, TxnIndex(txns, p))
    /\ LET c == inFlight[p]
           records == database.stores[c.target]
           doc == Prepare(c.data)
       IN  IF \E r \in records : r[primary] = doc[primary]
           THEN /\ inFlight' = [inFlight EXCEPT ![p] =
                       [SettledWith(c, "rejected", "ConstraintError")
                           EXCEPT !.pc = "done", !.txn = "aborted"]]
                /\ txns' = EndTxn(txns, p)
                /\ UNCHANGED database
           ELSE /\ inFlight' = [inFlight EXCEPT ![p] =
                       [SettledWith(c, "resolved", "") EXCEPT !.pc = "commit", !.undo = records]]
                /\ database' = [database EXCEPT !.stores[c.target] = PutRecord(records, doc)]
                /\ UNCHANGED txns
    /\ UNCHANGED <<activeCollection, raceFixed>>

\* update(data, id) up to its first suspension: the primary key is taken out
\* of the patch and _validateData, which reads no store for an update, is
\* awaited.
CallUpdate(p) ==
    /\ inFlight[p].op = "none"
    /\ NextCaller(p)
    /\ \E patch \in RacePatches : \E id \in {"k1"} :
          inFlight' = [inFlight EXCEPT ![p] =
              Started("update", Without(patch, primary), id, "called", p)]
    /\ UNCHANGED <<activeCollection, database, txns, raceFixed>>

\* update goes on after _validateData: it rejects with the errors, or opens
\* the readwrite transaction on the collection that is active now and asks
\* for store.get(id).
OpenStep(p) ==
    /\ inFlight[p].op = "update" /\ inFlight[p].pc = "called"
    /\ LET c == inFlight[p]
           errors == ValidateErrors(EmptyObj, c.data, "update")
       IN  IF errors # {}
           THEN /\ inFlight' = [inFlight EXCEPT ![p] =
                       [SettledWith(c, "rejected", "Validation failed")
                           EXCEPT !.errors = errors, !.pc = "done"]]
                /\ UNCHANGED txns
           ELSE /\ inFlight' = [inFlight EXCEPT ![p] =
                       [c EXCEPT !.pc = "get", !.target = activeCollection,
                                 !.txn = "alive"]]
                /\ txns' = BeginTxn(txns, p, activeCollection, "readwrite")
    /\ UNCHANGED <<activeCollection, database, raceFixed>>

\* store.get(id) answers: without a record the promise rejects and the
\* transaction completes with nothing written; with one, onsuccess merges the
\* patch into it and asks for the put.
GetStep(p) ==
    /\ inFlight[p].op = "update" /\ inFlight[p].pc = "get"
    /\ Runnable(txns, TxnIndex(txns, p))
    /\ LET c == inFlight[p]
           found == {r \in database.stores[c.target] : r[primary] = c.id}
       IN  IF found = {}
           THEN /\ inFlight' = [inFlight EXCEPT ![p] =
                       [SettledWith(c, "rejected", "Item not found")
                           EXCEPT !.pc = "done", !.txn = "committed"]]
                /\ txns' = EndTxn(txns, p)
           ELSE /\ inFlight' = [inFlight EXCEPT ![p] =
                       [c EXCEPT !.pc = "put", !.item = CHOOSE r \in found : TRUE]]
                /\ UNCHANGED txns
    /\ UNCHANGED <<activeCollection, database, raceFixed>>

\* store.put(updatedItem) succeeds and the promise of update resolves.
PutStep(p) ==
    /\ inFlight[p].op = "update" /\ inFlight[p].pc = "put"
    /\ LET c == inFlight[p]
           records == database.stores[c.target]
       IN  /\ inFlight' = [inFlight EXCEPT ![p] =
                  [SettledWith(c, "resolved", "") EXCEPT !.pc = "commit", !.undo = records]]
           /\ database' = [database EXCEPT !.stores[c.target] =
                              PutRecord(records, Spread(c.item, Prepare(c.data)))]
    /\ UNCHANGED <<activeCollection, txns, raceFixed>>

\* The transaction commits: oncomplete calls a resolve that has nothing left
\* to settle.
Commit(p) ==
    /\ inFlight[p].op # "none" /\ inFlight[p].pc = "commit"
    /\ inFlight' = [inFlight EXCEPT ![p] = [@ EXCEPT !.pc = "done", !.txn = "committed"]]
    /\ txns' = EndTxn(txns, p)
    /\ UNCHANGED <<activeCollection, database, raceFixed>>

\* The commit fails (the quota is exceeded, the disk fails): the transaction
\* aborts, its write is undone, and the promise stays as it was settled.
Abort(p) ==
    /\ inFlight[p].op # "none" /\ inFlight[p].pc = "commit"
    /\ inFlight' = [inFlight EXCEPT ![p] = [@ EXCEPT !.pc = "done", !.txn = "aborted"]]
    /\ database' = [database EXCEPT !.stores[inFlight[p].target] = inFlight[p].undo]
    /\ txns' = EndTxn(txns, p)
    /\ UNCHANGED <<activeCollection, raceFixed>>

\* The application calls switchCollection(name) between two events.
SwitchWhileInFlight ==
    /\ \E p \in Callers : InFlight(p)
    /\ \E name \in StoreNames \ {activeCollection} :
          /\ activeCollection' = SwitchCollection(Engine, name).m.activeCollection
          /\ inFlight' = [p \in Callers |->
                 IF inFlight[p].op # "none" /\ inFlight[p].pc \in {"called", "probe"}
                    /\ name \in Range(collections)
                 THEN [inFlight[p] EXCEPT !.switchedTo = name] ELSE inFlight[p]]
    /\ UNCHANGED <<database, txns, raceFixed>>

NextRace ==
    \/ \E p \in Callers :
          \/ CallCreate(p)
          \/ ValidateStep(p)
          \/ ProbeStep(p)
          \/ AddStep(p)
          \/ CallUpdate(p)
          \/ OpenStep(p)
          \/ GetStep(p)
          \/ PutStep(p)
          \/ Commit(p)
          \/ Abort(p)
    \/ SwitchWhileInFlight

SpecRace == InitRace /\ [][NextRace]_vars

\* ------------------------------------------------ upgrades that have to wait
\* addCollections on an engine that holds a connection while other connections
\* to the database are open: other engines, or connections an earlier
\* connect() of this engine left open.  The open request of addCollections
\* waits until they are closed; this engine closes none of them.
UpgradeStores == {{"db"}, {"c1"}, {"c1", "c2"}}

InitUpgrade ==
    /\ store = EmptyObj
    /\ watch = FALSE
    /\ conflictResolution = "server-wins"
    /\ serverIdField = "_id"
    /\ clock = 0
    /\ syncPc = 0
    /\ syncRun = NoRun
    /\ last = NoCall
    /\ version = 1
    /\ \E names \in UpgradeStores :
          /\ collections = ArrayFrom(names)
          /\ db = Handle(names)
          /\ database = [exists |-> TRUE, version |-> 1, stores |-> [n \in names |-> {}]]
          /\ objectStoreNames = names
          /\ activeCollection = ArrayFrom(names)[1]
    /\ connections \in 1..MaxConnections
    /\ NoneInFlight

\* The connections other than the one the engine holds.
OtherConnections == connections - (IF db.t = "handle" /\ db.open THEN 1 ELSE 0)

\* Another holder of a connection closes it.
OtherCloses ==
    /\ OtherConnections > 0
    /\ connections' = connections - 1
    /\ UNCHANGED <<store, activeCollection, objectStoreNames, watch, conflictResolution,
                   serverIdField, clock, last, version, collections, db, database,
                   flight, syncVars>>

\* The open request of addCollections, with no other connection left, runs
\* onupgradeneeded and succeeds, or fails.
UpgradeProceeds ==
    /\ last # NoCall
    /\ last.op = "addCollections" /\ last.outcome = "pending"
    /\ OtherConnections = 0
    /\ LET newCollections ==
               SelectSeq(last.arg.collections, LAMBDA n : n \notin db.objectStoreNames)
           r == IndexedDBOpen(database, version, 0, Range(newCollections),
                              \/ HasDuplicates(newCollections)
                              \/ Range(newCollections) \cap DOMAIN database.stores # {})
       IN  IF r.outcome = "success"
           THEN /\ database' = r.database
                /\ db' = Handle(DOMAIN r.database.stores)
                /\ connections' = connections + 1
                /\ objectStoreNames' = DOMAIN r.database.stores
                /\ last' = [last EXCEPT
                               !.outcome = "resolved",
                               !.result = [success |-> TRUE,
                                           addedCollections |-> newCollections,
                                           allCollections |->
                                               ArrayFrom(DOMAIN r.database.stores)]]
           ELSE /\ last' = [last EXCEPT !.outcome = Settled(r.outcome)]
                /\ UNCHANGED <<database, db, connections, objectStoreNames>>
    /\ UNCHANGED <<store, activeCollection, watch, conflictResolution, serverIdField,
                   clock, version, collections, flight, syncVars>>

\* A call whose promise has settled returns to the application.
ReturnSettled ==
    /\ last # NoCall
    /\ last.outcome # "pending"
    /\ Return

NextUpgrade ==
    \/ AppAddCollections
    \/ OtherCloses
    \/ UpgradeProceeds
    \/ ReturnSettled

\* The event loop delivers the events of a request that can go on, and a
\* settled promise runs its continuation; nothing makes another holder close
\* its connection.
SpecUpgrade ==
    /\ InitUpgrade
    /\ [][NextUpgrade]_vars
    /\ WF_vars(UpgradeProceeds)
    /\ WF_vars(ReturnSettled)

\* ------------------------------------------------------------- properties
StatusIs(r, v) == syncStatusField \in DOMAIN r /\ r[syncStatusField] = v
ServerIdIs(r, v) == serverIdField \in DOMAIN r /\ r[serverIdField] = v

\* The items of a pulled batch that are the last of their id in it.
LastOfId(items) ==
    {i \in 1..Len(items) : \A j \in (i + 1)..Len(items) : items[j][idField] # items[i][idField]}

\* C1: once watchChanges() is installed, a create and an update of an existing
\* record that the model itself would complete do complete, and the stored
\* record has syncStatus "modified".
C1_WatchedWritesLeaveModified ==
    watch =>
        /\ (last.op = "create" /\ ModelCreate(last.before, last.data, last.key).ok)
              => /\ last.ok
                 /\ last.key \in DOMAIN store
                 /\ StatusIs(store[last.key], "modified")
        /\ (/\ last.op = "update"
            /\ last.id.t = "string"
            /\ last.id.v \in DOMAIN last.before
            /\ ModelUpdate(last.before, Obj(last.patch), last.id).ok)
              => /\ last.ok
                 /\ last.id.v \in DOMAIN store
                 /\ StatusIs(store[last.id.v], "modified")

\* C2: with watchChanges() installed, after a push whose answer acknowledges a
\* local record as {localId, serverId}, that record is "synced", its server id
\* field holds the acknowledged serverId and its lastSync is set.
C2_AcknowledgedRecordIsSynced ==
    (watch /\ last.op = "push" /\ last.sent = "answered") =>
        \A i \in 1..Len(last.acks) :
            last.acks[i].localId \in DOMAIN last.before =>
                \E k \in DOMAIN store :
                    /\ k \in {last.acks[i].localId, last.acks[i].serverId}
                    /\ StatusIs(store[k], "synced")
                    /\ ServerIdIs(store[k], last.acks[i].serverId)
                    /\ lastSyncField \in DOMAIN store[k]

\* C3: the change set pushToServer() sends has exactly one entry for each
\* record whose syncStatus is "modified" and none for any other record.
C3_ChangesetIsTheModifiedRecords ==
    (last.op = "push" /\ last.sent # "none") =>
        \A k \in DOMAIN last.before :
            Cardinality({i \in 1..Len(last.changes) : last.changes[i].localId = k})
                = IF StatusIs(last.before[k], "modified") THEN 1 ELSE 0

\* C4: for every pulled item whose id is no local record's server id, exactly
\* one record is created, stored "synced" with lastSync set, with
\* watchChanges() installed or not.
C4_UnknownItemIsCreatedSynced ==
    (last.op = "pull" /\ last.answered /\ StoreOpen) =>
        \A i \in 1..Len(last.items) :
            (\A k \in DOMAIN last.before :
                 /\ ~ServerIdIs(last.before[k], last.items[i][idField])
                 /\ k # last.items[i][idField])
            => /\ Cardinality({k \in DOMAIN store \ DOMAIN last.before :
                                  ServerIdIs(store[k], last.items[i][idField])}) = 1
               /\ \A k \in DOMAIN store \ DOMAIN last.before :
                      ServerIdIs(store[k], last.items[i][idField])
                      => StatusIs(store[k], "synced") /\ lastSyncField \in DOMAIN store[k]

\* C5: under "server-wins", a pulled item whose id is a local record's server
\* id overwrites that record's fields and makes it "synced", whatever its
\* status was.
C5_ServerWinsOverwrites ==
    (conflictResolution = "server-wins" /\ last.op = "pull" /\ last.answered) =>
        \A i \in LastOfId(last.items) : \A k \in DOMAIN last.before :
            ServerIdIs(last.before[k], last.items[i][idField])
            => /\ k \in DOMAIN store
               /\ store[k]["name"] = last.items[i]["name"]
               /\ StatusIs(store[k], "synced")

\* C6: under "client-wins", a record that is "modified" when a pull starts has
\* the same fields and the same status when the pull returns, whatever the
\* pull brought: remote values reach no "modified" record.
C6_ClientWinsKeepsModified ==
    (conflictResolution = "client-wins" /\ last.op = "pull") =>
        \A k \in DOMAIN last.before :
            StatusIs(last.before[k], "modified")
            => k \in DOMAIN store /\ store[k] = last.before[k]

\* A client-wins pull has returned a different remote version of a record that
\* was "modified".
C6_Witness ==
    /\ conflictResolution = "client-wins"
    /\ last.op = "pull"
    /\ last.ok
    /\ \E i \in 1..Len(last.items) : \E k \in DOMAIN last.before :
          /\ StatusIs(last.before[k], "modified")
          /\ ServerIdIs(last.before[k], last.items[i][idField])
          /\ last.before[k]["name"] # last.items[i]["name"]

\* C7: under "manual", a pulled item whose id is a local record's server id
\* leaves that record's data, makes its syncStatus "conflict" and stores the
\* remote version on the record.
C7_ManualMarksConflict ==
    (conflictResolution = "manual" /\ last.op = "pull" /\ last.answered) =>
        \A i \in 1..Len(last.items) : \A k \in DOMAIN last.before :
            ServerIdIs(last.before[k], last.items[i][idField])
            => /\ k \in DOMAIN store
               /\ store[k]["name"] = last.before[k]["name"]
               /\ StatusIs(store[k], "conflict")
               /\ "_serverVersion" \in DOMAIN store[k]

\* C8: under "manual", a record that is in "conflict" when a push, a pull or a
\* sync starts is the same record when it returns, and a push has no entry for
\* it in its change set.
C8_ConflictIsLeftAlone ==
    (conflictResolution = "manual" /\ last.op \in {"push", "pull", "sync"}) =>
        \A k \in DOMAIN last.before :
            StatusIs(last.before[k], "conflict")
            => /\ k \in DOMAIN store
               /\ store[k] = last.before[k]
               /\ last.op = "push"
                     => \A i \in 1..Len(last.changes) : last.changes[i].localId # k

\* C9: in a sync(), the watermark is read only once pushToServer() has
\* returned, it is what getLastSyncTimestamp() reads in the collection the push
\* left, and the pull is issued only after both.
C9_PushThenWatermarkThenPull ==
    /\ syncRun.markDone => syncRun.pushDone /\ syncRun.markAfterPush
    /\ (syncPc > 0 /\ syncRun.markDone)
          => [thrown |-> FALSE, ts |-> syncRun.ts] \in GetLastSyncTimestamp(store)
    /\ (last.op = "sync" /\ last.pulled)
          => last.pushDone /\ last.markDone /\ last.markAfterPush

\* A sync() has pulled with a watermark that a record's lastSync gave it.
C9_Witness ==
    /\ last.op = "sync"
    /\ last.pulled
    /\ last.ts # NoTime

\* C10: sync() never throws, and when its push has failed its pull is attempted
\* all the same.
C10_FailedPushStillPulls ==
    last.op = "sync" =>
        /\ ~last.thrown
        /\ (last.pushDone /\ ~last.pushOk) => last.pulled

\* The fields that exist only for the local bookkeeping of the sync.
BookkeepingFields ==
    {syncStatusField, serverIdField, lastSyncField, "_syncErrors", "_localUpdatedAt"}

\* C11: whatever the records of the collection are, the data of every entry of
\* the change set a push sends holds none of the sync-bookkeeping fields.
C11_ChangesetDataHasNoBookkeeping ==
    last.op = "push" =>
        \A i \in 1..Len(last.changes) :
            DOMAIN last.changes[i].data \cap BookkeepingFields = {}

\* A push has sent an entry for a record that held its status, its lastSync and
\* its local update instant.
C11_Witness ==
    /\ last.op = "push"
    /\ \E i \in 1..Len(last.changes) :
          LET k == last.changes[i].localId
          IN  /\ k \in DOMAIN last.before
              /\ {syncStatusField, lastSyncField, "_localUpdatedAt"}
                     \subseteq DOMAIN last.before[k]
              /\ "name" \in DOMAIN last.changes[i].data

\* C12: a pull hands to handleConflict, with a remote item, only local records
\* whose server id is that item's id, and a record whose server id is the id
\* of no item of the batch is the same record after the pull.
C12_PullTouchesOnlyMatchingRecords ==
    last.op = "pull" =>
        /\ \A h \in 1..Len(last.handed) :
              \A j \in 1..Len(last.handed[h].localItem) :
                  ServerIdIs(last.handed[h].localItem[j], last.handed[h].serverItem[idField])
        /\ \A k \in DOMAIN last.before :
              (\A i \in 1..Len(last.items) :
                   ~ServerIdIs(last.before[k], last.items[i][idField]))
              => k \in DOMAIN store /\ store[k] = last.before[k]

\* The lastSync instants of the records that are "synced".
SyncedInstants(s) ==
    {s[k][lastSyncField] : k \in {j \in DOMAIN s : StatusIs(s[j], "synced")
                                                   /\ lastSyncField \in DOMAIN s[j]}}

\* C13: the watermark getLastSyncTimestamp() returns is the greatest lastSync
\* of the "synced" records, and null when no record is "synced"; records in
\* another status have no part in it.
C13_WatermarkIsMaxOfSynced ==
    (syncPc > 0 /\ syncRun.markDone) =>
        IF SyncedInstants(store) = {}
        THEN syncRun.ts = NoTime
        ELSE /\ syncRun.ts \in SyncedInstants(store)
             /\ \A v \in SyncedInstants(store) : v <= syncRun.ts

\* C14: an update of an existing id with a patch that names only some of the
\* declared fields succeeds, and the stored record is the prior record with the
\* patched fields replaced, the primary key kept whatever the patch says of it,
\* every other record as it was.
C14_PartialPatchIsMerged ==
    (/\ ~watch
     /\ last.op = "update"
     /\ last.id.t = "string"
     /\ last.id.v \in DOMAIN last.before)
    => /\ last.ok
       /\ DOMAIN store = DOMAIN last.before
       /\ \A k \in DOMAIN store :
             store[k] = IF k = last.id.v
                        THEN Spread(last.before[k], Without(last.patch, primary))
                        ELSE last.before[k]

\* C15: an update with an id that no record of the collection has fails with
\* the not-found error and leaves the collection as it was.
C15_UpdateOfUnknownIdIsNotFound ==
    (/\ ~watch
     /\ StoreOpen
     /\ last.op = "update"
     /\ last.id.t = "string"
     /\ last.id.v \notin DOMAIN last.before)
    => /\ ~last.ok
       /\ last.err = "Item not found"
       /\ store = last.before

\* C16: a create of data with no primary key, or an empty one, that completes
\* has stored the record under a generated string key no record had, returns
\* the record with that key in it (the data passed, but for what watchChanges
\* stamps), and findById of the returned key yields the stored record; the
\* other records are as they were.
C16_CreateSynthesizesPrimaryKey ==
    (last.op = "create" /\ NoPrimaryKey(last.data) /\ last.ok) =>
        /\ primary \in DOMAIN last.ret
        /\ last.ret[primary] \in Keys
        /\ last.ret[primary] \notin DOMAIN last.before
        /\ \A f \in DOMAIN last.data \ {primary} :
              /\ f \in DOMAIN last.ret
              /\ (watch /\ f \in DOMAIN Stamp(clock)) \/ last.ret[f] = last.data[f]
        /\ FindById(store, last.ret[primary]) = Obj(Prepare(last.ret))
        /\ \A k \in DOMAIN last.before : k \in DOMAIN store /\ store[k] = last.before[k]

\* A create of data with an empty primary key has completed beside a record
\* that was there before.
C16_Witness ==
    /\ last.op = "create"
    /\ primary \in DOMAIN last.data
    /\ last.data[primary] = ""
    /\ last.ok
    /\ last.before # EmptyObj
    /\ last.key \in DOMAIN store

\* The unique fields in which the data of a create names a value that a record
\* of the collection s holds.
Collisions(s, data) ==
    {f \in UniqueFields \cap DOMAIN data :
        data[f] # "" /\ \E k \in DOMAIN s : f \in DOMAIN s[k] /\ s[k][f] = data[f]}

\* C17: a create whose data names, in a unique field (the primary key or
\* another), a value that a stored record holds in that field fails with the
\* uniqueness error and leaves the collection as it was.
C17_DuplicateUniqueValueIsRejected ==
    (last.op = "create" /\ Collisions(last.before, last.data) # {}) =>
        /\ ~last.ok
        /\ last.err = "Validation failed"
        /\ \A f \in Collisions(last.before, last.data) :
              <<"unique", f>> \in ValidateErrors(last.before, last.data, "create")
        /\ store = last.before

\* A create has named the server id of a stored record, and another its
\* primary key.
C17_Witness ==
    /\ last.op = "create"
    /\ ~last.ok
    /\ serverIdField # primary
    /\ Collisions(last.before, last.data) = {serverIdField}

\* The predicate a caller of find or deleteMany states.
QueryOf(arg) == IF "query" \in DOMAIN arg THEN arg.query ELSE arg

\* How many times the record r is in the sequence q.
Occurrences(q, r) == Cardinality({i \in 1..Len(q) : q[i] = r})

\* The place of a key in the scan order of the store.
ScanPlace(k) == CHOOSE i \in 1..Len(KeyOrder) : KeyOrder[i] = k

C19_DeleteManyDeletesTheMatches ==
    last.op = "deleteMany" =>
        /\ DOMAIN store
              = {k \in DOMAIN last.before : ~MatchesQuery(last.before[k], QueryOf(last.arg))}
        /\ \A k \in DOMAIN store : store[k] = last.before[k]

\* The operators _matchesQuery knows.
KnownOperators == {"$gt", "$gte", "$lt", "$lte", "$ne", "$in", "$nin"}

\* The clauses of a query taken one operator at a time.
SingleClauses(q) ==
    {(f :> q[f]) : f \in {g \in DOMAIN q : q[g].t # "object"}}
    \cup UNION {{(f :> Obj((o :> q[f].v[o]))) : o \in DOMAIN q[f].v} :
                   f \in {g \in DOMAIN q : q[g].t = "object"}}

\* C20: a record is found by a query exactly when it is found by every clause
\* of the query taken alone, the operators of one field taken one at a time,
\* and a query with an operator other than the seven known ones finds nothing.
C20_ClausesAreAndedUnknownFailsClosed ==
    (last.op = "find" /\ "query" \in DOMAIN last.arg) =>
        \A k \in DOMAIN store :
            /\ Occurrences(last.result, store[k]) > 0
                  <=> \A c \in SingleClauses(last.arg.query) :
                          Occurrences(Find(store, [query |-> c]), store[k]) > 0
            /\ (\E c \in SingleClauses(last.arg.query) : \E f \in DOMAIN c :
                    c[f].t = "object" /\ DOMAIN c[f].v \cap KnownOperators = {})
                  => Occurrences(last.result, store[k]) = 0

\* A query of two fields has found one of two records, and a query with an
\* unknown operator beside a known one has run on a record.
C20_Witness ==
    /\ last.op = "find"
    /\ "query" \in DOMAIN last.arg
    /\ Cardinality(DOMAIN store) = 2
    /\ \/ Cardinality(DOMAIN last.arg.query) = 2 /\ Len(last.result) = 1
       \/ /\ "age" \in DOMAIN last.arg.query
          /\ last.arg.query["age"].t = "object"
          /\ DOMAIN last.arg.query["age"].v = {"$gt", "$eq"}

\* The data _validateData checks in the call held in last: create with the
\* primary key settled, update with the primary key taken out.
CheckedData ==
    IF last.op = "create"
    THEN IF primary \notin DOMAIN last.data \/ last.data[primary].v = ""
         THEN Spread(last.data, (primary :> Str(last.key))) ELSE last.data
    ELSE Without(last.data, primary)

\* The violations of a call, stated from the schema: a required field left
\* out, a create whose unique field has the value of a stored record, a value
\* other than null of another type than declared, a validator that refuses
\* the value or throws.
Violations ==
    {<<"required", f>> : f \in {g \in {"name", "age"} : g \notin DOMAIN CheckedData}}
    \cup {<<"unique", f>> :
             f \in {g \in {primary} :
                       /\ last.op = "create"
                       /\ \E k \in DOMAIN last.before :
                              last.before[k][g] = CheckedData[g].v}}
    \cup {<<"type", f>> :
             f \in {g \in DOMAIN CheckedData :
                       \/ g \in {"name", primary} /\ CheckedData[g].t \notin {"string", "null"}
                       \/ g = "age" /\ CheckedData[g].t \notin {"number", "null"}}}
    \cup {<<"validate", f>> :
             f \in {g \in {"age"} \cap DOMAIN CheckedData :
                       CheckedData[g].t = "number" /\ CheckedData[g].v < 0}}
    \cup {<<"validator threw", f>> :
             f \in {g \in {"age"} \cap DOMAIN CheckedData : CheckedData[g].t = "string"}}

\* C21: a create or update that fails validation writes nothing, and the one
\* failure it reports lists every violation of the call once: required,
\* unique, type and validator errors together, not only the first.
C21_ValidationFailureListsEveryViolation ==
    (last.op \in {"create", "update"} /\ last.err = "Validation failed") =>
        /\ store = last.before
        /\ {last.errors[i] : i \in 1..Len(last.errors)} = Violations
        /\ Len(last.errors) = Cardinality(Violations)

\* A create has failed with violations of three kinds on a collection that
\* holds a record, and an update has failed with two.
C21_Witness ==
    /\ last.op \in {"create", "update"}
    /\ last.err = "Validation failed"
    /\ last.before # EmptyObj
    /\ \/ last.op = "create"
          /\ {last.errors[i][1] : i \in 1..Len(last.errors)}
                 = {"required", "unique", "validate"}
       \/ last.op = "update" /\ Len(last.errors) = 3

\* addCollections has returned that nothing was added, and the database is as
\* it was: its version, its stores and the records in them.
AddedNothing ==
    /\ last.outcome = "resolved"
    /\ last.result.addedCollections = <<>>
    /\ last.result.allCollections = ArrayFrom(DOMAIN last.before.database.stores)
    /\ database = last.before.database

\* C22 as stated: addCollections with names that are all stores of the
\* database adds nothing and leaves the version and every store as they were,
\* whatever the state of the engine.
C22_AddingExistingNamesChangesNothing ==
    (/\ last.op = "addCollections"
     /\ Range(last.arg.collections) \subseteq DOMAIN last.before.database.stores)
        => AddedNothing

\* C22: on an engine that holds a connection, addCollections with names that
\* are all stores of the database returns addedCollections = [] and
\* allCollections = the stores, and changes neither the database nor the
\* engine: version, stores, records, collections and connection stay.
C22_AddingExistingNamesOnConnectedEngine ==
    (/\ last.op = "addCollections"
     /\ last.before.db.t = "handle"
     /\ Range(last.arg.collections) \subseteq DOMAIN last.before.database.stores)
        => /\ AddedNothing
           /\ Engine = last.before

\* addCollections was called a second time with a name it had added, on a
\* database that holds records.
C22_Witness ==
    /\ last.op = "addCollections"
    /\ last.before.db.t = "handle"
    /\ Range(last.arg.collections) \subseteq DOMAIN last.before.database.stores
    /\ last.before.version = 2
    /\ last.arg.collections = <<"c2">>
    /\ \E n \in DOMAIN database.stores : database.stores[n] # {}

\* C23: after addCollections on a connected engine, for any list of names,
\* model.collections holds no name twice, holds every store of the database,
\* and holds every name that was asked for.
C23_CollectionsHoldEveryStoreOnce ==
    (/\ last.op = "addCollections"
     /\ last.before.db.t = "handle"
     /\ last.before.db.open)
        => /\ ~HasDuplicates(collections)
           /\ DOMAIN database.stores \subseteq Range(collections)
           /\ Range(last.arg.collections) \subseteq Range(collections)

\* C24: switchCollection(name) makes a known name the active collection and
\* returns it; for an unknown name it returns null, throws nothing, and leaves
\* the active collection as it was.  Nothing else changes.
C24_SwitchCollectionKnownOrSentinel ==
    last.op = "switchCollection" =>
        /\ last.outcome = "resolved"
        /\ IF last.arg.collectionName \in Range(last.before.collections)
           THEN /\ activeCollection = last.arg.collectionName
                /\ last.result = Str(last.arg.collectionName)
           ELSE activeCollection = last.before.activeCollection /\ last.result = Null
        /\ Engine = [last.before EXCEPT !.activeCollection = activeCollection]

\* A connected engine was asked to switch to a name it does not know.
C24_Witness ==
    /\ last.op = "switchCollection"
    /\ last.before.db.t = "handle"
    /\ last.before.collections # <<>>
    /\ last.arg.collectionName \notin Range(last.before.collections)
    /\ last.arg.collectionName # last.before.activeCollection

\* C25: after connect() resolves, every collection the engine was constructed
\* with is a store of the database, and with none declared the store named
\* after the database is.
C25_ConnectCreatesDeclaredCollections ==
    (/\ last.op = "connect"
     /\ last.outcome = "resolved"
     /\ last.before.db.t = "null")
        => (IF Len(last.before.collections) > 0
            THEN Range(last.before.collections) ELSE {DbName})
               \subseteq DOMAIN database.stores

\* C26: connect() on an engine that holds an open connection opens no other
\* connection, keeps the one it holds, and changes neither the version nor the
\* collections nor the database.
C26_ConnectOnOpenHandleIsNoOp ==
    (/\ last.op = "connect"
     /\ last.before.db.t = "handle"
     /\ last.before.db.open)
        => /\ connections = last.before.connections
           /\ db = last.before.db
           /\ version = last.before.version
           /\ collections = last.before.collections
           /\ database = last.before.database

\* C30: the engine's version is a non-negative integer that no call of
\* connect, addCollections, refresh or disconnect lowers.
C30_VersionNeverDecreases ==
    /\ version \in Nat
    /\ last.op \in {"connect", "addCollections", "refresh", "disconnect"}
           => version >= last.before.version

\* C27: toObject(toDocument(r)) has the value of r in every field of r that is
\* neither null nor undefined, and toDocument(r) has every declared field of
\* the schema as a key, null where r has no value for it.
C27_DocumentRoundTripRestoresFields ==
    /\ last.op \in {"toDocument", "toObject"} =>
          \A f \in DOMAIN last.definition :
              /\ f \in DOMAIN last.document
              /\ (f \notin DOMAIN last.data \/ last.data[f] = Undefined)
                     => last.document[f] = Null
    /\ last.op = "toObject" =>
          \A f \in DOMAIN last.data :
              last.data[f] \notin {Null, Undefined}
                  => f \in DOMAIN last.object /\ last.object[f] = last.data[f]

\* A record with a zero, an empty string and no value for a declared field
\* went through toDocument and toObject.
C27_Witness ==
    /\ last.op = "toObject"
    /\ DOMAIN last.definition = {"name", "age"}
    /\ "age" \in DOMAIN last.data
    /\ last.data["age"] = Num(0)
    /\ "name" \notin DOMAIN last.data
    /\ last.document["name"] = Null
    /\ last.object["name"] = Undefined

\* The values a sync status may have.
SyncStatuses == {"synced", "modified", "pending", "conflict"}

\* C28: with the sync fields in the schema, every record of the collection
\* carries a sync status, one of synced, modified, pending and conflict.
C28_EveryRecordCarriesSyncStatus ==
    \A k \in DOMAIN store :
        /\ syncStatusField \in DOMAIN store[k]
        /\ store[k][syncStatusField] \in SyncStatuses

\* The record an update is aimed at: the id, or the patch's primary key when
\* no id is given.
UpdateTarget ==
    IF Truthy(last.id) THEN last.id.v ELSE last.patch[primary]

\* C29: every record is stored under its own primary key, so no two records
\* share one; an update, a push, a pull and a sync keep every record under the
\* key it had, and an update changes no record but the one it is aimed at.
C29_PrimaryKeyIsUniqueAndImmutable ==
    /\ \A k \in DOMAIN store : store[k][primary] = k
    /\ last.op \in {"update", "push", "pull", "sync"} =>
          \A k \in DOMAIN last.before :
              k \in DOMAIN store /\ store[k][primary] = last.before[k][primary]
    /\ (last.op = "update" /\ last.ok) =>
          \A k \in DOMAIN last.before \ {UpdateTarget} : store[k] = last.before[k]

\* An update of one record has succeeded with a patch that names the primary
\* key of another record.
C29_Witness ==
    /\ last.op = "update"
    /\ last.ok
    /\ Truthy(last.id)
    /\ primary \in DOMAIN last.patch
    /\ last.patch[primary] # last.id.v
    /\ last.patch[primary] \in DOMAIN last.before
    /\ store[last.id.v] # last.before[last.id.v]

\* Two values are exactly equal: the same type and the same content, whatever
\* object holds it.
SameValue(a, b) ==
    /\ a.t = b.t
    /\ IF a.t \in ObjectTypes THEN a.v = b.v ELSE a = b

\* C31: a query clause whose value is a literal (a string, a number, a
\* boolean, null, a Date, an array or an object) finds a record exactly when
\* the record's field is equal to the literal.
C31_LiteralClauseIsExactEquality ==
    (last.op = "find" /\ "value" \in DOMAIN last.arg.query) =>
        \A k \in DOMAIN store :
            Occurrences(last.result, store[k]) > 0
                <=> /\ "value" \in DOMAIN store[k]
                    /\ SameValue(store[k]["value"], last.arg.query["value"])

\* Two calls of update on the same record of the same collection.
SameRecordUpdates(p, q) ==
    /\ p # q
    /\ inFlight[p].op = "update" /\ inFlight[q].op = "update"
    /\ inFlight[p].target # "" /\ inFlight[p].target = inFlight[q].target
    /\ inFlight[p].id = inFlight[q].id

\* The update of p has resolved and its transaction has committed.
UpdateCommitted(p) ==
    inFlight[p].outcome = "resolved" /\ inFlight[p].txn = "committed"

\* C32 as stated: two update() calls in flight on the same record are not
\* isolated from each other; while one is between its read and its write, the
\* read of the other is not held back, so both read the same prior record and
\* the later write discards the patch of the earlier.
C32_UpdatesInFlightReadTheSameRecord ==
    \A p \in Callers : \A q \in Callers :
        (SameRecordUpdates(p, q) /\ inFlight[p].pc = "put" /\ inFlight[q].pc = "get")
            => Runnable(txns, TxnIndex(txns, q))

\* C32: two update() calls in flight on the same record are run one after the
\* other by their readwrite transactions; the record an update merges its
\* patch into is the record the store holds when it writes, and once both have
\* committed the record has every field of both patches, a field both name
\* with the value of one of them.
C32_ConcurrentUpdatesAreSerialized ==
    \A p \in Callers : \A q \in Callers :
        SameRecordUpdates(p, q) =>
            /\ inFlight[p].pc = "put"
                  => inFlight[p].item \in database.stores[inFlight[p].target]
            /\ (UpdateCommitted(p) /\ UpdateCommitted(q)) =>
                  \E r \in database.stores[inFlight[p].target] :
                      /\ r[primary] = inFlight[p].id
                      /\ \A f \in DOMAIN Prepare(inFlight[p].data) :
                            /\ f \in DOMAIN r
                            /\ \/ r[f] = inFlight[p].data[f]
                               \/ /\ f \in DOMAIN Prepare(inFlight[q].data)
                                  /\ r[f] = inFlight[q].data[f]

\* Two updates that were in flight together have committed; the record has the
\* name of the later one and the sync status only the earlier one set.
C32_Witness ==
    \E p \in Callers : \E q \in Callers :
        /\ SameRecordUpdates(p, q)
        /\ UpdateCommitted(p) /\ UpdateCommitted(q)
        /\ inFlight[p].concurrent
        /\ inFlight[p].data = ("name" :> "b")
        /\ inFlight[q].data = ("name" :> "a") @@ (syncStatusField :> "modified")
        /\ (primary :> "k1") @@ ("name" :> "b") @@ (syncStatusField :> "modified")
              \in database.stores["c1"]

\* C33: nothing pins a create() in flight to the collection that was active
\* when it was called; its readwrite transaction is opened on the collection
\* that is active when its last uniqueness probe ends, the one
\* switchCollection() named last while the call was validating, whatever
\* collections its probes have read, and the record it adds goes there.
C33_WriteGoesToTheCollectionActiveAfterValidation ==
    \A p \in Callers :
        (inFlight[p].op = "create" /\ inFlight[p].target # "") =>
            /\ inFlight[p].target = IF inFlight[p].switchedTo # ""
                                    THEN inFlight[p].switchedTo
                                    ELSE inFlight[p].activeAtCall
            /\ inFlight[p].pc = "commit"
                  => Prepare(inFlight[p].data) \in database.stores[inFlight[p].target]

\* A create whose probes both read c1 has added its record to c2 after
\* switchCollection("c2"), beside a record of c2 with the same server id.
C33_Witness ==
    \E p \in Callers :
        /\ inFlight[p].op = "create"
        /\ inFlight[p].probed = <<"c1", "c1">>
        /\ inFlight[p].target = "c2"
        /\ inFlight[p].outcome = "resolved" /\ inFlight[p].txn = "committed"
        /\ \A q \in Callers \ {p} : inFlight[q].op = "none"
        /\ \E r \in database.stores["c2"] :
              /\ r[primary] # inFlight[p].id
              /\ "_serverId" \in DOMAIN r
              /\ "_serverId" \in DOMAIN inFlight[p].data
              /\ r["_serverId"] = inFlight[p].data["_serverId"]

\* The model.update calls handleConflict started for the first remote item of
\* the pull held in last, that item having a local counterpart.
ConflictWrites ==
    HandleConflict(last.handed[1].localItem, last.handed[1].serverItem, clock)

\* One of those calls rejected.
ConflictWriteFailed ==
    \E i \in 1..Len(ConflictWrites) :
        ~ModelUpdate(Settle(last.before, SubSeq(ConflictWrites, 1, i - 1)),
                     ConflictWrites[i].data, ConflictWrites[i].id).ok

\* C34: when pullFromServer() returns, every conflict-resolution write it
\* started has settled, and if one of them failed the result is
\* {success: false, error} and not {success: true}.
C34_PullReportsFailedConflictWrites ==
    (/\ last.op = "pull"
     /\ last.handed # <<>>
     /\ last.items[1] = last.handed[1].serverItem
     /\ ConflictWriteFailed)
        => ~last.ok

\* C35: create() and update() report success to their caller only after the
\* enclosing transaction has committed; a call whose transaction aborts after
\* its request succeeded has not reported success.
C35_SuccessOnlyAfterCommit ==
    \A p \in Callers :
        (inFlight[p].op # "none" /\ inFlight[p].outcome = "resolved")
            => inFlight[p].txn = "committed"

\* The calls made so far are calls of create, and switchCollection() has not
\* run while one of them was validating.
OnlyCreatesOnOneCollection ==
    \A p \in Callers :
        inFlight[p].op # "none"
            => inFlight[p].op = "create" /\ inFlight[p].switchedTo = ""

\* C36: for any interleaving of concurrent create() calls, no two records
\* stored in one collection share a value of a field the schema declares
\* unique.
C36_NoTwoRecordsShareUniqueValue ==
    OnlyCreatesOnOneCollection =>
        \A n \in DOMAIN database.stores :
            \A r1 \in database.stores[n] : \A r2 \in database.stores[n] :
                \A i \in 1..Len(UniqueEntries) :
                    (/\ r1 # r2
                     /\ UniqueEntries[i] \in DOMAIN r1
                     /\ UniqueEntries[i] \in DOMAIN r2)
                        => r1[UniqueEntries[i]] # r2[UniqueEntries[i]]

\* The remote authority has acknowledged every record the push held in last
\* sent.
EverySentRecordAcknowledged ==
    /\ last.sent = "answered"
    /\ last.changes # <<>>
    /\ \A i \in 1..Len(last.changes) :
          \E j \in 1..Len(last.acks) : last.acks[j].localId = last.changes[i].localId

\* C37: after a pushToServer() in which every sent record was acknowledged,
\* and with no local write since, the next pushToServer() sends an empty
\* change set: an acknowledged record is not pushed again until it is written
\* again.
C37_AcknowledgedRecordsAreNotPushedAgain ==
    (last.op = "push" /\ EverySentRecordAcknowledged) => Changeset(store) = <<>>

\* C38: whenever the engine holds an open connection, activeCollection names
\* a store of the database, also for an engine constructed with collections
\* and no active collection of its own.
C38_ActiveCollectionIsAStore ==
    (db.t = "handle" /\ db.open) => activeCollection \in DOMAIN database.stores

\* C39: create() of a record that leaves out an optional field declared
\* unique is not refused for that field, also when stored records leave it
\* out too: the absence of a unique field is not a value that collides.
C39_AbsentUniqueFieldIsNoCollision ==
    \A p \in Callers :
        (inFlight[p].op = "create" /\ "_serverId" \notin DOMAIN inFlight[p].data)
            => <<"unique", "_serverId">> \notin inFlight[p].errors

\* The call held in last is an addCollections that names a collection the
\* database did not have.
AddsNewCollection ==
    /\ last # NoCall
    /\ last.op = "addCollections"
    /\ \E i \in 1..Len(last.arg.collections) :
          last.arg.collections[i] \notin DOMAIN last.before.database.stores

\* C40: an addCollections() call that names at least one new collection
\* eventually resolves or rejects, also while another connection to the same
\* database is open.
C40_AddCollectionsEventuallySettles ==
    AddsNewCollection ~> (AddsNewCollection /\ last.outcome \in {"resolved", "rejected"})

====
